---- MODULE Spec2Model ----
(***************************************************************************)
(* W5500 Ethernet controller driver (w5500_driver.py) and the Siemens      *)
(* S7-1500 Modbus TCP client built on it (S7_1500_ModbusClient_w5500.py).  *)
(*                                                                         *)
(* The model has three parts:                                              *)
(*   - the peripheral: socket 0's registers and TX/RX rings as the driver  *)
(*     sees them over the bus, and the remote peer behind it;              *)
(*   - the ring transport: W5500.socket_send / W5500.socket_recv and       *)
(*     SiemensModbusTCP._send_modbus_frame / _receive_modbus_response;     *)
(*   - the Modbus client: connect, disconnect, the four request            *)
(*     operations.                                                         *)
(* One control thread drives the device; pc is its position.  The          *)
(* peripheral and the peer act between any two of its steps.               *)
(*                                                                         *)
(* Several specifications share the actions:                               *)
(*   SpecRing   the ring transport on an established socket, echoing peer; *)
(*   Spec       the request operations of a constructed client, PLC peer;  *)
(*   SpecConn   connect / disconnect of a constructed client;              *)
(*   SpecLive   every call of the client, the control thread being fair;   *)
(*   SpecDriver the socket operations of W5500, the thread being fair;     *)
(*   SpecBlock  W5500.socket_send with payloads up to the buffer size;     *)
(*   SpecStore  a write and its read-back against a storing peer;          *)
(*   SpecLate   reads against a storing peer whose replies may come late;  *)
(*   SpecProbe  connect with the ARP probe on socket 1 step by step;       *)
(*   SpecPair   two threads calling W5500.socket_send on socket 0;         *)
(*   SpecRead   reads from the RX ring by the driver and by the client;    *)
(*   SpecQuery  connect / disconnect / is_connected;                       *)
(*   SpecSession connect, disconnect and requests in one run;              *)
(*   SpecFrames requests in a row against the PLC, answers in segments.    *)
(***************************************************************************)
EXTENDS Integers, Sequences, FiniteSets, TLC

(***************************************************************************)
(* Bounds of the model.                                                    *)
(***************************************************************************)
\* longest payload handed to W5500.socket_send
MaxLen == 2
\* transport sends made in one run of SpecRing
MaxSends == 2
\* request operations called in one run of Spec
MaxRequests == 1
\* passes of _receive_modbus_response's loop that fit in its 5000 ms deadline
RespPolls == 3
\* connect / disconnect calls made in one run of SpecConn
MaxCalls == 2
\* polls of the PHY that fit in _wait_for_link's 5000 ms
LinkPolls == 1
\* polls of the status that fit in connect's deadline
ConnPolls == 2
\* polls made of the 50 of _test_arp_resolution's loop
ArpPolls == 2

(***************************************************************************)
(* Program constants.                                                      *)
(***************************************************************************)
CMD_OPEN == 1
CMD_CONNECT == 4
CMD_CLOSE == 16
CMD_SEND == 32
CMD_RECV == 64
SOCK_CLOSED == 0
SOCK_INIT == 19
SOCK_ESTABLISHED == 23
\* the status of a socket whose CONNECT is under way: none of the above
SOCK_SYNSENT == 21
\* Sn_IR bits the client tests
IR_TIMEOUT == 8
IR_SEND_OK == 16
\* the 16-bit space of "& 0xFFFF"
PtrSpace == 65536
\* socket_recv's default max_length
DefaultMaxLength == 1024
\* the bytes _receive_modbus_response takes for a response: MBAP + function code
MinResponse == 8
\* the Modbus TCP limits of the request operations
MaxReadCount == 125
MaxWriteCount == 123
\* the exception bit of a function code
ExceptionBit == 128
\* the TX buffer of a socket: the Sn_TXBUF_SIZE the driver leaves at the
\* peripheral's 2 KB
TxBufSize == 2048

VARIABLES
  \* ---- peripheral, socket 0 ----
  Sn_CR,        \* command register: the command written, 0 once accepted
  Sn_SR,        \* status register
  Sn_IR,        \* interrupt register: the set of bits raised
  Sn_TX_WR,     \* TX write pointer register
  Sn_TX_RD,     \* TX read pointer (peripheral side)
  txmem,        \* TX buffer block: address -> byte
  Sn_RX_RD,     \* RX read pointer register
  Sn_RX_WR,     \* RX write pointer (peripheral side)
  Sn_RX_RSR,    \* RX received size register
  rxmem,        \* RX buffer block: address -> byte
  \* ---- network ----
  peer_in,      \* bytes the peripheral transmitted, not yet handled by the peer
  wire,         \* segments the peer sent, not yet in the RX ring
  holding,      \* holding registers a storing peer keeps: address -> value
  \* ---- client object ----
  connected,    \* SiemensModbusTCP.connected
  transaction_id, \* SiemensModbusTCP.transaction_id
  \* ---- control thread ----
  pc,           \* position of the control thread
  op,           \* the call in progress, "" when idle
  impl,         \* which implementation drives the socket in this run
  data,         \* W5500.socket_send / socket_recv: data
  max_length,   \* W5500.socket_recv: max_length
  pdu,          \* SiemensModbusTCP: pdu
  frame,        \* SiemensModbusTCP._send_modbus_frame: frame
  tx_wr,        \* local tx_wr
  rx_rd,        \* local rx_rd
  rx_rsr,       \* local rx_rsr
  response_data, \* SiemensModbusTCP._receive_modbus_response: response_data
  polls,        \* iterations made of the current deadline loop
  ret,          \* what the last finished call returned
  err,          \* the exception the last finished call raised or logged
  \* ---- request operation: arguments and locals, kept until the next call ----
  start_address, \* start_address; write_single_register: address
  count,        \* read_*_registers: count
  values,       \* write_multiple_registers: values; write_single_register: <<value>>
  response,     \* what _receive_modbus_response returned to the request operation
  txid0,        \* transaction_id when the request operation was called
  \* ---- connect: what it last read, kept until the next call ----
  link,         \* the PHY link is up
  status,       \* connect: status, the last value read from Sn_SR
  sir,          \* connect: sir, the last value read from Sn_IR
  seen,         \* <<outcome, result>> of every connect attempt finished so far
  calls,        \* connect / disconnect calls made so far
  \* ---- observation ----
  written,      \* every byte handed to the transport since Init, in order
  received,     \* every byte W5500.socket_recv returned since Init, in order
  startPtr,     \* <<Sn_TX_WR, Sn_RX_RD>> at Init
  sends,        \* calls made so far that send
  cmdlog,       \* the commands the current call wrote to Sn_CR, in order
  cmdTimedOut,  \* the current call gave up waiting for Sn_CR to clear
  \* ---- socket 1, the socket of the ARP probe ----
  S1_CR,        \* its command register
  S1_IR,        \* its interrupt register, as the set of bits set
  arp_cmd,      \* _test_arp_resolution: cmd
  arp_sir,      \* _test_arp_resolution: sir
  arplog,       \* the commands the last probe wrote to S1_CR, in order
  arp_fresh,    \* the interrupt bits socket 1 raised since a probe's last SEND
  \* ---- the chip ----
  MR,           \* the mode register, as the set of bits set
  closed,       \* the sockets the last _apply_arp_fix wrote CLOSE to
  common,       \* the common registers holding the network configuration
  \* ---- a second thread calling W5500.socket_send on socket 0 ----
  other,        \* its position, payload and local tx_wr
  serialized    \* the two threads take one lock around every send

ctlVars == <<Sn_CR, Sn_SR, Sn_IR>>
txVars == <<Sn_TX_WR, Sn_TX_RD, txmem>>
rxVars == <<Sn_RX_RD, Sn_RX_WR, Sn_RX_RSR, rxmem>>
netVars == <<peer_in, wire, holding>>
clientVars == <<connected, transaction_id>>
localVars == <<data, max_length, pdu, frame, tx_wr, rx_rd, rx_rsr,
               response_data, polls>>
resVars == <<ret, err>>
histVars == <<written, received, startPtr, sends>>
reqVars == <<start_address, count, values, response, txid0>>
connVars == <<link, status, sir, seen, calls>>
probeVars == <<S1_CR, S1_IR, arp_cmd, arp_sir, arplog, arp_fresh>>
chipVars == <<MR, closed, common>>
pairVars == <<other, serialized>>
sideVars == <<probeVars, chipVars, pairVars>>
vars == <<ctlVars, txVars, rxVars, netVars, clientVars, localVars, resVars,
          histVars, cmdlog, cmdTimedOut, pc, op, impl, reqVars, connVars,
          sideVars>>

(***************************************************************************)
(* struct.pack('>H', x), struct.unpack('>H', b), "& 0xFFFF"                *)
(***************************************************************************)
PackH(x) == <<x \div 256, x % 256>>
UnpackH(b) == 256 * b[1] + b[2]
Mask16(x) == x % PtrSpace

Range(s) == {s[i] : i \in DOMAIN s}
Min(a, b) == IF a < b THEN a ELSE b

(***************************************************************************)
(* A buffer block of the peripheral.  The driver addresses it with the     *)
(* 16-bit offset it computes; a byte never written reads as 0.             *)
(***************************************************************************)
EmptyMem == [a \in {} |-> 0]
MemRead(mem, a) == IF a \in DOMAIN mem THEN mem[a] ELSE 0
\* mem after bytes[i] is written at addrs[i], for i = 1, 2, ... in that order
\* the writes lo..hi as a block of their own; a later write to an address
\* replaces an earlier one
RECURSIVE MemWrites(_, _, _, _)
MemWrites(addrs, bytes, lo, hi) ==
  IF lo = hi THEN addrs[lo] :> bytes[lo]
  ELSE LET mid == (lo + hi) \div 2 IN
       MemWrites(addrs, bytes, mid + 1, hi) @@ MemWrites(addrs, bytes, lo, mid)
MemStore(mem, addrs, bytes) ==
  IF Len(addrs) = 0 THEN mem
  ELSE MemWrites(addrs, bytes, 1, Len(addrs)) @@ mem
\* what the peripheral holds at base, base+1, ..., base+n-1 of its ring
RingSeq(mem, base, n) == [i \in 1..n |-> MemRead(mem, Mask16(base + i - 1))]

(***************************************************************************)
(* The peripheral.  A command written to Sn_CR stays there until the       *)
(* peripheral accepts it, which clears the register and has the command's  *)
(* effect.                                                                 *)
(***************************************************************************)
\* SEND: the bytes between the TX read and write pointers go to the peer
AcceptSEND ==
  LET n == Mask16(Sn_TX_WR - Sn_TX_RD) IN
  /\ Sn_CR = CMD_SEND
  /\ Sn_CR' = 0
  /\ IF Sn_SR = SOCK_ESTABLISHED
       THEN /\ peer_in' = peer_in \o RingSeq(txmem, Sn_TX_RD, n)
            /\ Sn_IR' = Sn_IR \cup {IR_SEND_OK}
       ELSE UNCHANGED <<peer_in, Sn_IR>>
  /\ Sn_TX_RD' = Sn_TX_WR
  /\ UNCHANGED <<Sn_SR, Sn_TX_WR, txmem, rxVars, wire, holding, clientVars, localVars, resVars,
                 histVars, cmdlog, cmdTimedOut, pc, op, impl, sideVars, reqVars, connVars>>

\* RECV: the ring up to the RX read pointer register is reclaimed
AcceptRECV ==
  LET n == Mask16(Sn_RX_WR - Sn_RX_RD) IN
  /\ Sn_CR = CMD_RECV
  /\ Sn_CR' = 0
  /\ Sn_RX_RSR' = n
  /\ UNCHANGED <<Sn_SR, Sn_IR, txVars, Sn_RX_RD, Sn_RX_WR, rxmem, netVars, clientVars,
                 localVars, resVars, histVars, cmdlog, cmdTimedOut, pc, op, impl, sideVars, reqVars, connVars>>

(***************************************************************************)
(* The network.                                                            *)
(***************************************************************************)
\* a byte sequence as one TCP segment, or cut in two at any place
Segments(bytes) ==
  {<<bytes>>} \cup
  {<<SubSeq(bytes, 1, k), SubSeq(bytes, k + 1, Len(bytes))>> :
     k \in 1..(Len(bytes) - 1)}

\* an echoing peer sends back what it received
PeerEcho ==
  /\ peer_in # <<>>
  /\ \E segs \in Segments(peer_in) : wire' = wire \o segs
  /\ peer_in' = <<>>
  /\ UNCHANGED <<ctlVars, txVars, rxVars, holding, clientVars, localVars, resVars,
                 histVars, cmdlog, cmdTimedOut, pc, op, impl, sideVars, reqVars, connVars>>

\* the next segment from the peer reaches the RX ring
PeerDeliver ==
  /\ Sn_SR = SOCK_ESTABLISHED
  /\ wire # <<>>
  /\ LET seg == Head(wire) IN
       /\ rxmem' = MemStore(rxmem,
                            [i \in 1..Len(seg) |-> Mask16(Sn_RX_WR + i - 1)], seg)
       /\ Sn_RX_WR' = Mask16(Sn_RX_WR + Len(seg))
       /\ Sn_RX_RSR' = Mask16(Sn_RX_RSR + Len(seg))
  /\ wire' = Tail(wire)
  /\ UNCHANGED <<ctlVars, txVars, Sn_RX_RD, peer_in, holding, clientVars, localVars,
                 resVars, histVars, cmdlog, cmdTimedOut, pc, op, impl, sideVars, reqVars, connVars>>

(***************************************************************************)
(* What lies beside socket 0 and the control thread, as the constructor    *)
(* leaves it: the probe socket closed, the force-ARP bit set by            *)
(* _apply_arp_fix, no second thread.                                       *)
(***************************************************************************)
\* the force-ARP bit of the mode register
MR_FARP == 2
\* the sockets of the chip
Slots == 0..7
NoOther == [pc |-> "idle", data |-> <<>>, tx_wr |-> 0]

\* lines 53-62: what _setup_network writes to the common registers after
\* _apply_arp_fix: the MAC address, IP address, subnet mask and gateway the
\* client was constructed with, RTR = 5000, RCR = 10
NetworkSetup ==
  [SHAR |-> "mac_addr", SIPR |-> "local_ip", SUBR |-> "subnet",
   GAR |-> "gateway", RTR |-> 5000, RCR |-> 10]
\* the common registers after a reset of the chip: addresses all zero,
\* RTR = 2000, RCR = 8
CommonDefaults ==
  [SHAR |-> "zero", SIPR |-> "zero", SUBR |-> "zero", GAR |-> "zero",
   RTR |-> 2000, RCR |-> 8]

SideInit ==
  /\ S1_CR = 0 /\ S1_IR = {} /\ arp_cmd = 0 /\ arp_sir = {} /\ arplog = <<>>
  /\ arp_fresh = {}
  /\ MR = {MR_FARP} /\ closed = {} /\ common = NetworkSetup
  /\ other = NoOther

(***************************************************************************)
(* Calls and returns of the control thread.                                *)
(***************************************************************************)
NoRet == [op |-> "", kind |-> "", val |-> <<>>]
NoErr == [msg |-> "", code |-> 0]
Err(m) == [msg |-> m, code |-> 0]

ResetLocals ==
  /\ data' = <<>> /\ max_length' = 0 /\ pdu' = <<>> /\ frame' = <<>>
  /\ tx_wr' = 0 /\ rx_rd' = 0 /\ rx_rsr' = 0
  /\ response_data' = <<>> /\ polls' = 0

\* the call in progress returns to its caller: kind is "value" (with val),
\* "None", "True", "False" or "raise"; e is what it raised or logged
Return(kind, v, e) ==
  /\ pc' = "idle"
  /\ op' = ""
  /\ ret' = [op |-> op, kind |-> kind, val |-> v]
  /\ err' = e
  /\ ResetLocals

\* a call starts
Enter(o, p) ==
  /\ pc = "idle"
  /\ op' = o
  /\ pc' = p
  /\ cmdlog' = <<>>
  /\ cmdTimedOut' = FALSE

\* the payload of n bytes handed to the transport next: no byte value occurs
\* twice in a run, so a byte lost, repeated or out of place shows
Payload(n) == [i \in 1..n |-> (Len(written) + i) % 256]

(***************************************************************************)
(* W5500.socket_send(0, data)                              w5500_driver.py *)
(***************************************************************************)
Call_socket_send ==
  /\ impl = "driver"
  /\ sends < MaxSends
  /\ Enter("socket_send", "socket_send_write")
  /\ \E n \in 0..MaxLen :
       /\ data' = Payload(n)
       /\ written' = written \o Payload(n)
  /\ sends' = sends + 1
  /\ UNCHANGED <<ctlVars, txVars, rxVars, netVars, clientVars, max_length, pdu,
                 frame, tx_wr, rx_rd, rx_rsr, response_data, polls, resVars,
                 received, startPtr, impl, sideVars, reqVars, connVars>>

\* line 297: addr = (tx_wr + i) & 0xFFFF
socket_send_addr(p, i) == Mask16(p + i)
\* the TX write pointer written back as it was read
socket_send_new_tx_wr_NoAdvance(p, n) == Mask16(p)
\* line 301: new_tx_wr = (tx_wr + len(data)) & 0xFFFF
socket_send_new_tx_wr(p, n) == Mask16(p + n)

\* lines 291-298: read the TX write pointer, write the bytes from there on
socket_send_write ==
  /\ pc = "socket_send_write"
  /\ tx_wr' = Sn_TX_WR
  /\ txmem' = MemStore(txmem,
                       [i \in 1..Len(data) |-> socket_send_addr(Sn_TX_WR, i - 1)],
                       data)
  /\ pc' = "socket_send_ptr"
  /\ UNCHANGED <<ctlVars, Sn_TX_WR, Sn_TX_RD, rxVars, netVars, clientVars, data,
                 max_length, pdu, frame, rx_rd, rx_rsr, response_data, polls,
                 resVars, histVars, cmdlog, cmdTimedOut, op, impl, sideVars, reqVars, connVars>>

\* lines 300-302: update the TX write pointer
socket_send_ptr ==
  /\ pc = "socket_send_ptr"
  /\ Sn_TX_WR' = socket_send_new_tx_wr(tx_wr, Len(data))
  /\ pc' = "socket_send_cmd"
  /\ UNCHANGED <<ctlVars, Sn_TX_RD, txmem, rxVars, netVars, clientVars,
                 localVars, resVars, histVars, cmdlog, cmdTimedOut, op, impl, sideVars, reqVars, connVars>>

\* the SEND command written one step early, before the pointer update
socket_send_cmd_Early ==
  /\ pc \in {"socket_send_ptr", "socket_send_cmd"}
  /\ Sn_CR' = CMD_SEND
  /\ cmdlog' = Append(cmdlog, CMD_SEND)
  /\ pc' = "socket_send_wait"
  /\ UNCHANGED <<Sn_SR, Sn_IR, txVars, rxVars, netVars, clientVars, localVars,
                 resVars, histVars, cmdTimedOut, op, impl, sideVars, reqVars, connVars>>

\* lines 304-305: the SEND command
socket_send_cmd ==
  /\ pc = "socket_send_cmd"
  /\ Sn_CR' = CMD_SEND
  /\ cmdlog' = Append(cmdlog, CMD_SEND)
  /\ pc' = "socket_send_wait"
  /\ UNCHANGED <<Sn_SR, Sn_IR, txVars, rxVars, netVars, clientVars, localVars,
                 resVars, histVars, cmdTimedOut, op, impl, sideVars, reqVars, connVars>>

\* lines 307-309: wait until the command register reads 0
socket_send_wait ==
  /\ pc = "socket_send_wait"
  /\ Sn_CR = 0
  /\ Return("value", <<>>, NoErr)
  /\ UNCHANGED <<ctlVars, txVars, rxVars, netVars, clientVars, histVars, cmdlog,
                 cmdTimedOut, impl, sideVars, reqVars, connVars>>

(***************************************************************************)
(* W5500.socket_recv(0, max_length)                        w5500_driver.py *)
(***************************************************************************)
Call_socket_recv ==
  /\ impl = "driver"
  /\ Enter("socket_recv", "socket_recv_size")
  /\ \E m \in {1, DefaultMaxLength} : max_length' = m
  /\ UNCHANGED <<ctlVars, txVars, rxVars, netVars, clientVars, data, pdu, frame,
                 tx_wr, rx_rd, rx_rsr, response_data, polls, resVars, histVars,
                 impl, sideVars, reqVars, connVars>>

\* the address without the wrap
socket_recv_addr_NoWrap(p, i) == p + i
\* line 333: addr = (rx_rd + i) & 0xFFFF
socket_recv_addr(p, i) == Mask16(p + i)
\* line 338: new_rx_rd = (rx_rd + read_size) & 0xFFFF
socket_recv_new_rx_rd(p, n) == Mask16(p + n)

\* the received size sampled and the read carried on whatever it is
socket_recv_size_NoEarlyReturn ==
  /\ pc = "socket_recv_size"
  /\ LET read_size == Min(Sn_RX_RSR, max_length) IN
       /\ rx_rsr' = Sn_RX_RSR
       /\ rx_rd' = Sn_RX_RD
       /\ data' = [i \in 1..read_size |->
                     MemRead(rxmem, socket_recv_addr(Sn_RX_RD, i - 1))]
       /\ pc' = "socket_recv_ptr"
       /\ UNCHANGED <<max_length, pdu, frame, tx_wr, response_data, polls,
                      resVars, op>>
  /\ UNCHANGED <<ctlVars, txVars, rxVars, netVars, clientVars, histVars, cmdlog,
                 cmdTimedOut, impl, sideVars, reqVars, connVars>>

\* lines 316-335: sample the received size; nothing there: return b'';
\* otherwise read min(rx_rsr, max_length) bytes from the RX read pointer on
socket_recv_size ==
  /\ pc = "socket_recv_size"
  /\ IF Sn_RX_RSR = 0
       THEN Return("value", <<>>, NoErr)
       ELSE LET read_size == Min(Sn_RX_RSR, max_length) IN
            /\ rx_rsr' = Sn_RX_RSR
            /\ rx_rd' = Sn_RX_RD
            /\ data' = [i \in 1..read_size |->
                          MemRead(rxmem, socket_recv_addr(Sn_RX_RD, i - 1))]
            /\ pc' = "socket_recv_ptr"
            /\ UNCHANGED <<max_length, pdu, frame, tx_wr, response_data, polls,
                           resVars, op>>
  /\ UNCHANGED <<ctlVars, txVars, rxVars, netVars, clientVars, histVars, cmdlog,
                 cmdTimedOut, impl, sideVars, reqVars, connVars>>

\* the RECV command where the RX read pointer is to be written
socket_recv_ptr_RecvFirst ==
  /\ pc = "socket_recv_ptr"
  /\ Sn_CR' = CMD_RECV
  /\ cmdlog' = Append(cmdlog, CMD_RECV)
  /\ pc' = "socket_recv_cmd"
  /\ UNCHANGED <<Sn_SR, Sn_IR, txVars, rxVars, netVars, clientVars, localVars,
                 resVars, histVars, cmdTimedOut, op, impl, sideVars, reqVars, connVars>>

\* lines 337-339: update the RX read pointer
socket_recv_ptr ==
  /\ pc = "socket_recv_ptr"
  /\ Sn_RX_RD' = socket_recv_new_rx_rd(rx_rd, Len(data))
  /\ pc' = "socket_recv_cmd"
  /\ UNCHANGED <<ctlVars, txVars, Sn_RX_WR, Sn_RX_RSR, rxmem, netVars,
                 clientVars, localVars, resVars, histVars, cmdlog, cmdTimedOut,
                 op, impl, sideVars, reqVars, connVars>>

\* lines 341-342: the RECV command
socket_recv_cmd ==
  /\ pc = "socket_recv_cmd"
  /\ Sn_CR' = CMD_RECV
  /\ cmdlog' = Append(cmdlog, CMD_RECV)
  /\ pc' = "socket_recv_wait"
  /\ UNCHANGED <<Sn_SR, Sn_IR, txVars, rxVars, netVars, clientVars, localVars,
                 resVars, histVars, cmdTimedOut, op, impl, sideVars, reqVars, connVars>>

\* lines 344-348: wait until the command register reads 0, return the bytes
socket_recv_wait ==
  /\ pc = "socket_recv_wait"
  /\ Sn_CR = 0
  /\ received' = received \o data
  /\ Return("value", data, NoErr)
  /\ UNCHANGED <<ctlVars, txVars, rxVars, netVars, clientVars, written,
                 startPtr, sends, cmdlog, cmdTimedOut, impl, sideVars, reqVars, connVars>>


(***************************************************************************)
(* SiemensModbusTCP._send_modbus_frame(pdu)      S7_1500_ModbusClient_w5500 *)
(***************************************************************************)
ReadOps == {"read_holding_registers", "read_input_registers"}
WriteOps == {"write_single_register", "write_multiple_registers"}
RequestOps == ReadOps \cup WriteOps

\* an exception e leaves _send_modbus_frame / _receive_modbus_response: a
\* request operation catches it, logs it and returns None (reads, lines
\* 386-388, 515-517) or False (writes, lines 421-423, 465-467)
Raise(e) ==
  IF op \in ReadOps THEN Return("None", <<>>, e)
  ELSE IF op \in WriteOps THEN Return("False", <<>>, e)
  ELSE Return("raise", <<>>, e)

\* lines 255-259: struct.pack('>HHHB', transaction_id, 0, len(pdu) + 1, 1)
MBAP(tid, n) == PackH(tid) \o PackH(0) \o PackH(n) \o <<1>>

\* line 273: addr = (tx_wr + i) & 0xFFFF
send_modbus_frame_addr(p, i) == Mask16(p + i)
\* line 277: new_tx_wr = (tx_wr + len(frame)) & 0xFFFF
send_modbus_frame_new_tx_wr(p, n) == Mask16(p + n)

\* the frame built and written whether the client is connected or not
send_modbus_frame_write_NoConnectedTest ==
  /\ pc = "send_modbus_frame_write"
  /\ LET f == MBAP(transaction_id, Len(pdu) + 1) \o pdu IN
       /\ frame' = f
       /\ tx_wr' = Sn_TX_WR
       /\ txmem' = MemStore(txmem,
                      [i \in 1..Len(f) |->
                         send_modbus_frame_addr(Sn_TX_WR, i - 1)], f)
       /\ pc' = "send_modbus_frame_ptr"
       /\ UNCHANGED <<data, max_length, pdu, rx_rd, rx_rsr, response_data,
                      polls, resVars, op>>
  /\ UNCHANGED <<ctlVars, Sn_TX_WR, Sn_TX_RD, rxVars, netVars, clientVars,
                 histVars, cmdlog, cmdTimedOut, impl, sideVars, reqVars, connVars>>

\* lines 251-274: not connected: raise; otherwise build the frame, read the
\* TX write pointer and write the frame from there on
send_modbus_frame_write ==
  /\ pc = "send_modbus_frame_write"
  /\ IF ~connected
       THEN /\ Raise(Err("Not connected to PLC"))
            /\ UNCHANGED txmem
       ELSE LET f == MBAP(transaction_id, Len(pdu) + 1) \o pdu IN
            /\ frame' = f
            /\ tx_wr' = Sn_TX_WR
            /\ txmem' = MemStore(txmem,
                           [i \in 1..Len(f) |->
                              send_modbus_frame_addr(Sn_TX_WR, i - 1)], f)
            /\ pc' = "send_modbus_frame_ptr"
            /\ UNCHANGED <<data, max_length, pdu, rx_rd, rx_rsr, response_data,
                           polls, resVars, op>>
  /\ UNCHANGED <<ctlVars, Sn_TX_WR, Sn_TX_RD, rxVars, netVars, clientVars,
                 histVars, cmdlog, cmdTimedOut, impl, sideVars, reqVars, connVars>>

\* lines 276-278: update the TX write pointer
send_modbus_frame_ptr ==
  /\ pc = "send_modbus_frame_ptr"
  /\ Sn_TX_WR' = send_modbus_frame_new_tx_wr(tx_wr, Len(frame))
  /\ pc' = "send_modbus_frame_cmd"
  /\ UNCHANGED <<ctlVars, Sn_TX_RD, txmem, rxVars, netVars, clientVars,
                 localVars, resVars, histVars, cmdlog, cmdTimedOut, op, impl, sideVars, reqVars, connVars>>

\* lines 280-281: the SEND command
send_modbus_frame_cmd ==
  /\ pc = "send_modbus_frame_cmd"
  /\ Sn_CR' = CMD_SEND
  /\ cmdlog' = Append(cmdlog, CMD_SEND)
  /\ pc' = "send_modbus_frame_wait"
  /\ UNCHANGED <<Sn_SR, Sn_IR, txVars, rxVars, netVars, clientVars, localVars,
                 resVars, histVars, cmdTimedOut, op, impl, sideVars, reqVars, connVars>>

\* the increment without "& 0xFFFF"
NextTransactionId_NoWrap(t) == t + 1
\* line 290: self.transaction_id = (self.transaction_id + 1) & 0xFFFF
NextTransactionId(t) == Mask16(t + 1)

\* lines 283-290: poll the command register up to 50 times, 10 ms apart,
\* leaving the loop when it reads 0; then, either way, advance the
\* transaction ID and return
send_modbus_frame_wait ==
  /\ pc = "send_modbus_frame_wait"
  /\ cmdTimedOut' = (cmdTimedOut \/ Sn_CR # 0)
  /\ transaction_id' = NextTransactionId(transaction_id)
  /\ IF op = "_send_modbus_frame"
       THEN Return("None", <<>>, NoErr)
       ELSE /\ pc' = "receive_modbus_response_poll"
            /\ UNCHANGED <<localVars, resVars, op>>
  /\ UNCHANGED <<ctlVars, txVars, rxVars, netVars, connected, histVars, cmdlog,
                 impl, sideVars, reqVars, connVars>>

(***************************************************************************)
(* The ring transport on an established socket, driven by either           *)
(* implementation, against an echoing peer.                                *)
(***************************************************************************)
\* the PDU of read_holding_registers(0, 1)
RingPdu == <<3>> \o PackH(0) \o PackH(1)

Call_send_modbus_frame ==
  /\ impl = "client"
  /\ sends < MaxSends
  /\ Enter("_send_modbus_frame", "send_modbus_frame_write")
  /\ pdu' = RingPdu
  /\ written' = written \o MBAP(transaction_id, Len(RingPdu) + 1) \o RingPdu
  /\ sends' = sends + 1
  /\ UNCHANGED <<ctlVars, txVars, rxVars, netVars, clientVars, data,
                 max_length, frame, tx_wr, rx_rd, rx_rsr, response_data, polls,
                 resVars, received, startPtr, impl, sideVars, reqVars, connVars>>

\* pointer values a long-running socket holds, those next to the wrap included
StartPtrs == {<<0, 0>>, <<PtrSpace - 1, PtrSpace - 2>>, <<PtrSpace - 2, 0>>}

InitRing ==
  /\ Sn_CR = 0 /\ Sn_SR = SOCK_ESTABLISHED /\ Sn_IR = {}
  /\ startPtr \in StartPtrs
  /\ Sn_TX_WR = startPtr[1] /\ Sn_TX_RD = startPtr[1] /\ txmem = EmptyMem
  /\ Sn_RX_RD = startPtr[2] /\ Sn_RX_WR = startPtr[2] /\ rxmem = EmptyMem
  /\ Sn_RX_RSR = 0
  /\ peer_in = <<>> /\ wire = <<>> /\ holding = EmptyMem
  /\ connected = TRUE /\ transaction_id = 1
  /\ pc = "idle" /\ op = "" /\ impl \in {"driver", "client"}
  /\ data = <<>> /\ max_length = 0 /\ pdu = <<>> /\ frame = <<>>
  /\ tx_wr = 0 /\ rx_rd = 0 /\ rx_rsr = 0
  /\ response_data = <<>> /\ polls = 0
  /\ ret = NoRet /\ err = NoErr
  /\ start_address = 0 /\ count = 0 /\ values = <<>> /\ response = <<>>
  /\ txid0 = 1
  /\ link = TRUE /\ status = 0 /\ sir = {} /\ seen = {} /\ calls = 0
  /\ written = <<>> /\ received = <<>> /\ sends = 0
  /\ cmdlog = <<>> /\ cmdTimedOut = FALSE
  /\ SideInit /\ serialized = TRUE

NextRing ==
  \/ Call_socket_send \/ socket_send_write \/ socket_send_ptr
  \/ socket_send_cmd \/ socket_send_wait
  \/ Call_socket_recv \/ socket_recv_size \/ socket_recv_ptr
  \/ socket_recv_cmd \/ socket_recv_wait
  \/ Call_send_modbus_frame \/ send_modbus_frame_write
  \/ send_modbus_frame_ptr \/ send_modbus_frame_cmd
  \/ send_modbus_frame_wait
  \/ AcceptSEND \/ AcceptRECV \/ PeerEcho \/ PeerDeliver

SpecRing == InitRing /\ [][NextRing]_vars

(***************************************************************************)
(* Two threads sending on socket 0: the control thread and a second thread *)
(* both call W5500.socket_send.  In a serialized run each call is made     *)
(* under one lock over the device, so a call starts only while the other   *)
(* thread is outside; otherwise the steps of the two calls interleave.     *)
(***************************************************************************)
\* what no step of the second thread touches
OtherKeeps ==
  UNCHANGED <<Sn_SR, Sn_IR, Sn_TX_RD, rxVars, netVars, clientVars, localVars,
              resVars, received, startPtr, cmdlog, cmdTimedOut, pc, op, impl,
              reqVars, connVars, probeVars, chipVars, serialized>>

\* the second thread calls socket_send(0, data)
Call_other_socket_send ==
  /\ other.pc = "idle"
  /\ sends < MaxSends
  /\ serialized => pc = "idle"
  /\ \E n \in 1..MaxLen :
       /\ other' = [pc |-> "write", data |-> Payload(n), tx_wr |-> 0]
       /\ written' = written \o Payload(n)
  /\ sends' = sends + 1
  /\ UNCHANGED <<Sn_CR, Sn_TX_WR, txmem>>
  /\ OtherKeeps

\* lines 291-298: read the TX write pointer, write the bytes from there on
other_socket_send_write ==
  /\ other.pc = "write"
  /\ other' = [other EXCEPT !.pc = "ptr", !.tx_wr = Sn_TX_WR]
  /\ txmem' = MemStore(txmem,
                       [i \in 1..Len(other.data) |->
                          socket_send_addr(Sn_TX_WR, i - 1)],
                       other.data)
  /\ UNCHANGED <<Sn_CR, Sn_TX_WR, written, sends>>
  /\ OtherKeeps

\* lines 300-302: update the TX write pointer
other_socket_send_ptr ==
  /\ other.pc = "ptr"
  /\ Sn_TX_WR' = socket_send_new_tx_wr(other.tx_wr, Len(other.data))
  /\ other' = [other EXCEPT !.pc = "cmd"]
  /\ UNCHANGED <<Sn_CR, txmem, written, sends>>
  /\ OtherKeeps

\* lines 304-305: the SEND command
other_socket_send_cmd ==
  /\ other.pc = "cmd"
  /\ Sn_CR' = CMD_SEND
  /\ other' = [other EXCEPT !.pc = "wait"]
  /\ UNCHANGED <<Sn_TX_WR, txmem, written, sends>>
  /\ OtherKeeps

\* lines 307-309: wait until the command register reads 0
other_socket_send_wait ==
  /\ other.pc = "wait"
  /\ Sn_CR = 0
  /\ other' = NoOther
  /\ UNCHANGED <<Sn_CR, Sn_TX_WR, txmem, written, sends>>
  /\ OtherKeeps

InitPair ==
  /\ Sn_CR = 0 /\ Sn_SR = SOCK_ESTABLISHED /\ Sn_IR = {}
  /\ startPtr \in StartPtrs
  /\ Sn_TX_WR = startPtr[1] /\ Sn_TX_RD = startPtr[1] /\ txmem = EmptyMem
  /\ Sn_RX_RD = startPtr[2] /\ Sn_RX_WR = startPtr[2] /\ rxmem = EmptyMem
  /\ Sn_RX_RSR = 0
  /\ peer_in = <<>> /\ wire = <<>> /\ holding = EmptyMem
  /\ connected = TRUE /\ transaction_id = 1
  /\ pc = "idle" /\ op = "" /\ impl = "driver"
  /\ data = <<>> /\ max_length = 0 /\ pdu = <<>> /\ frame = <<>>
  /\ tx_wr = 0 /\ rx_rd = 0 /\ rx_rsr = 0
  /\ response_data = <<>> /\ polls = 0
  /\ ret = NoRet /\ err = NoErr
  /\ start_address = 0 /\ count = 0 /\ values = <<>> /\ response = <<>>
  /\ txid0 = 1
  /\ link = TRUE /\ status = 0 /\ sir = {} /\ seen = {} /\ calls = 0
  /\ written = <<>> /\ received = <<>> /\ sends = 0
  /\ cmdlog = <<>> /\ cmdTimedOut = FALSE
  /\ SideInit /\ serialized \in BOOLEAN

NextPair ==
  \/ (serialized => other.pc = "idle") /\ Call_socket_send
  \/ socket_send_write \/ socket_send_ptr
  \/ socket_send_cmd \/ socket_send_wait
  \/ Call_other_socket_send \/ other_socket_send_write
  \/ other_socket_send_ptr \/ other_socket_send_cmd
  \/ other_socket_send_wait
  \/ AcceptSEND

SpecPair == InitPair /\ [][NextPair]_vars

(***************************************************************************)
(* SiemensModbusTCP._receive_modbus_response()   S7_1500_ModbusClient_w5500 *)
(***************************************************************************)
\* line 312: addr = (rx_rd + i) & 0xFFFF
receive_modbus_response_addr(p, i) == Mask16(p + i)
\* the RX read pointer left where it was
receive_modbus_response_new_rx_rd_Stay(p, n) == p
\* line 317: new_rx_rd = (rx_rd + rx_rsr) & 0xFFFF
receive_modbus_response_new_rx_rd(p, n) == Mask16(p + n)

\* the loop without its deadline: while True
receive_modbus_response_poll_NoDeadline ==
  /\ pc = "receive_modbus_response_poll"
  /\ IF Sn_RX_RSR > 0
       THEN /\ rx_rsr' = Sn_RX_RSR
            /\ rx_rd' = Sn_RX_RD
            /\ response_data' = response_data \o
                 [i \in 1..Sn_RX_RSR |->
                    MemRead(rxmem, receive_modbus_response_addr(Sn_RX_RD, i - 1))]
            /\ pc' = "receive_modbus_response_ptr"
            /\ UNCHANGED <<data, max_length, pdu, frame, tx_wr, polls, resVars,
                           op>>
       ELSE UNCHANGED <<localVars, resVars, pc, op>>
  /\ UNCHANGED <<ctlVars, txVars, rxVars, netVars, clientVars, histVars, cmdlog,
                 cmdTimedOut, impl, sideVars, reqVars, connVars>>

\* lines 300-314, 334-336: one pass of the deadline loop.  Deadline over:
\* raise.  Bytes in the RX ring: read the pointer, append all of them to
\* response_data.  None: sleep 50 ms and poll again.
receive_modbus_response_poll ==
  /\ pc = "receive_modbus_response_poll"
  /\ IF polls >= RespPolls
       THEN Raise(Err("Response timeout"))
       ELSE IF Sn_RX_RSR > 0
         THEN /\ rx_rsr' = Sn_RX_RSR
              /\ rx_rd' = Sn_RX_RD
              /\ response_data' = response_data \o
                   [i \in 1..Sn_RX_RSR |->
                      MemRead(rxmem, receive_modbus_response_addr(Sn_RX_RD, i - 1))]
              /\ pc' = "receive_modbus_response_ptr"
              /\ UNCHANGED <<data, max_length, pdu, frame, tx_wr, polls, resVars,
                             op>>
         ELSE /\ polls' = polls + 1
              /\ UNCHANGED <<data, max_length, pdu, frame, tx_wr, rx_rd, rx_rsr,
                             response_data, resVars, pc, op>>
  /\ UNCHANGED <<ctlVars, txVars, rxVars, netVars, clientVars, histVars, cmdlog,
                 cmdTimedOut, impl, sideVars, reqVars, connVars>>

\* lines 316-318: update the RX read pointer
receive_modbus_response_ptr ==
  /\ pc = "receive_modbus_response_ptr"
  /\ Sn_RX_RD' = receive_modbus_response_new_rx_rd(rx_rd, rx_rsr)
  /\ pc' = "receive_modbus_response_cmd"
  /\ UNCHANGED <<ctlVars, txVars, Sn_RX_WR, Sn_RX_RSR, rxmem, netVars,
                 clientVars, localVars, resVars, histVars, cmdlog, cmdTimedOut,
                 op, impl, sideVars, reqVars, connVars>>

\* lines 320-321: the RECV command
receive_modbus_response_cmd ==
  /\ pc = "receive_modbus_response_cmd"
  /\ Sn_CR' = CMD_RECV
  /\ cmdlog' = Append(cmdlog, CMD_RECV)
  /\ pc' = "receive_modbus_response_wait"
  /\ UNCHANGED <<Sn_SR, Sn_IR, txVars, rxVars, netVars, clientVars, localVars,
                 resVars, histVars, cmdTimedOut, op, impl, sideVars, reqVars, connVars>>

\* line 331: if len(response_data) >= 8
receive_modbus_response_complete(r) == Len(r) >= MinResponse

\* lines 323-334: poll the command register up to 50 times, leaving the loop
\* when it reads 0; then, either way: enough bytes: return them to the
\* request operation; otherwise sleep 50 ms and poll again
receive_modbus_response_wait ==
  /\ pc = "receive_modbus_response_wait"
  /\ cmdTimedOut' = (cmdTimedOut \/ Sn_CR # 0)
  /\ IF receive_modbus_response_complete(response_data)
       THEN /\ response' = response_data
            /\ pc' = "parse_response"
            /\ UNCHANGED polls
       ELSE /\ polls' = polls + 1
            /\ pc' = "receive_modbus_response_poll"
            /\ UNCHANGED response
  /\ UNCHANGED <<ctlVars, txVars, rxVars, netVars, clientVars, data, max_length,
                 pdu, frame, tx_wr, rx_rd, rx_rsr, response_data, resVars,
                 histVars, cmdlog, op, impl, sideVars, start_address, count, values, txid0,
                 connVars>>

(***************************************************************************)
(* The request operations: read_holding_registers, read_input_registers,   *)
(* write_single_register, write_multiple_registers.                        *)
(***************************************************************************)
FuncCode(o) ==
  CASE o = "read_holding_registers" -> 3
    [] o = "read_input_registers" -> 4
    [] o = "write_single_register" -> 6
    [] o = "write_multiple_registers" -> 16

\* the arguments the calls are made with
StartAddresses == {258}
Counts == {2, MaxReadCount + 1}
Values == {PtrSpace + 5}
ValueLists == {<<4660, PtrSpace + 5>>,
               [i \in 1..(MaxWriteCount + 1) |-> 0]}

\* a request operation is called with start address a, count c, values v
CallRequest(o, a, c, v) ==
  /\ Enter(o, "request_start")
  /\ start_address' = a
  /\ count' = c
  /\ values' = v
  /\ response' = <<>>
  /\ txid0' = transaction_id
  /\ sends' = sends + 1
  /\ UNCHANGED <<ctlVars, txVars, rxVars, netVars, clientVars, localVars,
                 resVars, written, received, startPtr, impl, sideVars, connVars>>

Call_read_holding_registers ==
  /\ pc = "idle" /\ sends < MaxRequests
  /\ \E a \in StartAddresses, c \in Counts :
       CallRequest("read_holding_registers", a, c, <<>>)

Call_read_input_registers ==
  /\ pc = "idle" /\ sends < MaxRequests
  /\ \E a \in StartAddresses, c \in Counts :
       CallRequest("read_input_registers", a, c, <<>>)

Call_write_single_register ==
  /\ pc = "idle" /\ sends < MaxRequests
  /\ \E a \in StartAddresses, v \in Values :
       CallRequest("write_single_register", a, 0, <<v>>)

Call_write_multiple_registers ==
  /\ pc = "idle" /\ sends < MaxRequests
  /\ \E a \in StartAddresses, v \in ValueLists :
       CallRequest("write_multiple_registers", a, 0, v)

\* the values packed low byte first
DataBytes_LittleEndian(v) ==
  [i \in 1..(2 * Len(v)) |-> PackH(Mask16(v[(i + 1) \div 2]))[1 + (i % 2)]]

\* lines 440-442: struct.pack('>H', value & 0xFFFF) for each value
DataBytes(v) ==
  [i \in 1..(2 * Len(v)) |-> PackH(Mask16(v[(i + 1) \div 2]))[2 - (i % 2)]]

\* lines 353, 402, 445-446, 484: the PDU of the request
RequestPdu ==
  CASE op \in ReadOps ->
         <<FuncCode(op)>> \o PackH(start_address) \o PackH(count)
    [] op = "write_single_register" ->
         <<6>> \o PackH(start_address) \o PackH(Mask16(values[1]))
    [] op = "write_multiple_registers" ->
         <<16>> \o PackH(start_address) \o PackH(Len(values))
           \o <<Len(DataBytes(values))>> \o DataBytes(values)

\* the request built and sent whatever the count
request_start_NoCheck ==
  /\ pc = "request_start"
  /\ pdu' = RequestPdu
  /\ pc' = "send_modbus_frame_write"
  /\ UNCHANGED <<data, max_length, frame, tx_wr, rx_rd, rx_rsr,
                 response_data, polls, resVars, op>>
  /\ UNCHANGED <<ctlVars, txVars, rxVars, netVars, clientVars, histVars, cmdlog,
                 cmdTimedOut, impl, sideVars, reqVars, connVars>>

\* lines 349-353, 436-446: over the limit: ValueError, raised to the caller
\* before anything is sent; otherwise build the PDU and send it
request_start ==
  /\ pc = "request_start"
  /\ IF op \in ReadOps /\ count > MaxReadCount
       THEN Return("raise", <<>>, Err("Maximum 125 registers per request"))
       ELSE IF op = "write_multiple_registers" /\ Len(values) > MaxWriteCount
         THEN Return("raise", <<>>, Err("Maximum 123 registers per request"))
         ELSE /\ pdu' = RequestPdu
              /\ pc' = "send_modbus_frame_write"
              /\ UNCHANGED <<data, max_length, frame, tx_wr, rx_rd, rx_rsr,
                             response_data, polls, resVars, op>>
  /\ UNCHANGED <<ctlVars, txVars, rxVars, netVars, clientVars, histVars, cmdlog,
                 cmdTimedOut, impl, sideVars, reqVars, connVars>>

\* the registers unpacked low byte first
Registers_LittleEndian(d) ==
  [k \in 1..(Len(d) \div 2) |-> d[2 * k - 1] + 256 * d[2 * k]]

\* lines 372-376: the registers in data, two bytes each
Registers(d) == [k \in 1..(Len(d) \div 2) |-> UnpackH(SubSeq(d, 2 * k - 1, 2 * k))]

\* a Modbus exception response answered by sending the request again
ParseRead_Retry(f, r) ==
  IF Len(r) < 9 THEN Raise(Err("Response too short"))
  ELSE IF r[8] = f
    THEN LET byte_count == r[9] IN
         IF Len(r) < 9 + byte_count THEN Raise(Err("Incomplete response"))
         ELSE IF byte_count % 2 = 1
           THEN Raise(Err("struct.unpack: buffer too small"))
           ELSE Return("value", Registers(SubSeq(r, 10, 9 + byte_count)), NoErr)
  ELSE IF r[8] = f + ExceptionBit
    THEN /\ pc' = "send_modbus_frame_write"
         /\ response_data' = <<>>
         /\ polls' = 0
         /\ UNCHANGED <<op, ret, err, data, max_length, pdu, frame, tx_wr,
                        rx_rd, rx_rsr>>
    ELSE Raise([msg |-> "Unexpected function code", code |-> r[8]])

\* lines 360-384, 490-513: a read operation parses response r for function f
ParseRead(f, r) ==
  IF Len(r) < 9 THEN Raise(Err("Response too short"))
  ELSE IF r[8] = f
    THEN LET byte_count == r[9] IN
         IF Len(r) < 9 + byte_count THEN Raise(Err("Incomplete response"))
         ELSE IF byte_count % 2 = 1
           \* struct.unpack('>H', ...) of the last, one-byte slice
           THEN Raise(Err("struct.unpack: buffer too small"))
           ELSE Return("value", Registers(SubSeq(r, 10, 9 + byte_count)), NoErr)
  ELSE IF r[8] = f + ExceptionBit
    THEN Raise([msg |-> "Modbus error", code |-> r[9]])
    ELSE Raise([msg |-> "Unexpected function code", code |-> r[8]])

\* lines 408-419, 452-463: a write operation parses response r for function f
ParseWrite(f, r) ==
  IF Len(r) < 8 THEN Raise(Err("Response too short"))
  ELSE IF r[8] = f THEN Return("True", <<>>, NoErr)
  ELSE IF r[8] = f + ExceptionBit
    THEN IF Len(r) < 9
           \* response[8] of an 8-byte response
           THEN Raise(Err("IndexError"))
           ELSE Raise([msg |-> "Modbus error", code |-> r[9]])
    ELSE Raise([msg |-> "Unexpected function code", code |-> r[8]])

parse_response ==
  /\ pc = "parse_response"
  /\ IF op \in ReadOps
       THEN ParseRead(FuncCode(op), response)
       ELSE ParseWrite(FuncCode(op), response)
  /\ UNCHANGED <<ctlVars, txVars, rxVars, netVars, clientVars, histVars, cmdlog,
                 cmdTimedOut, impl, sideVars, reqVars, connVars>>

(***************************************************************************)
(* The PLC: a Modbus TCP server behind the socket.  It answers each        *)
(* request frame with the regular response, an exception response, or a    *)
(* response the protocol does not allow; or it stays silent.  Its answer   *)
(* travels as one TCP segment or as two.                                   *)
(***************************************************************************)
\* the value the PLC holds in register a
PlcRegister(a) == Mask16(43981 + a)
\* n bytes of register data from register a on
PlcRegBytes(a, n) ==
  [i \in 1..n |-> PackH(PlcRegister(a + ((i - 1) \div 2)))[2 - (i % 2)]]

ExceptionCodes == {2}
UnexpectedFuncCodes == {1}

\* the response PDUs the protocol allows to request PDU q: the regular
\* response and the exception responses
PlcConforming(q) ==
  LET f == q[1]
      a == UnpackH(SubSeq(q, 2, 3))
      n == UnpackH(SubSeq(q, 4, 5))
      regular == IF f \in {3, 4} THEN {<<f, 2 * n>> \o PlcRegBytes(a, 2 * n)}
                 ELSE {SubSeq(q, 1, 5)}
      exception == {<<f + ExceptionBit, c>> : c \in ExceptionCodes}
  IN regular \cup exception

\* the response PDUs to request PDU q, those the protocol does not allow
\* included: another function code, a byte count that is not twice the count
PlcReplies(q) ==
  LET f == q[1]
      a == UnpackH(SubSeq(q, 2, 3))
      n == UnpackH(SubSeq(q, 4, 5))
      unexpected == {<<g, 0>> : g \in UnexpectedFuncCodes}
      miscounted == IF f \in {3, 4}
                      THEN {<<f, b>> \o PlcRegBytes(a, b) : b \in {2 * n - 1, 2 * n + 2}}
                      ELSE {}
  IN PlcConforming(q) \cup unexpected \cup miscounted

\* where a response may be cut in two: inside the MBAP header, after the
\* function code, after the first data byte
ReplyCuts == {4, 8, 10}
Pieces(bytes) ==
  {<<bytes>>} \cup
  {<<SubSeq(bytes, 1, k), SubSeq(bytes, k + 1, Len(bytes))>> :
     k \in {c \in ReplyCuts : c < Len(bytes)}}

\* the PLC takes the next request frame and answers it, or not
PlcReply ==
  /\ Len(peer_in) >= 7
  /\ LET n == 6 + UnpackH(SubSeq(peer_in, 5, 6))
         tid == UnpackH(SubSeq(peer_in, 1, 2))
         q == SubSeq(peer_in, 8, n)
     IN /\ Len(peer_in) >= n
        /\ peer_in' = SubSeq(peer_in, n + 1, Len(peer_in))
        /\ \/ \E r \in PlcReplies(q) :
                \E segs \in Pieces(MBAP(tid, Len(r) + 1) \o r) :
                  wire' = wire \o segs
           \/ UNCHANGED wire
  /\ UNCHANGED <<ctlVars, txVars, rxVars, holding, clientVars, localVars, resVars,
                 histVars, cmdlog, cmdTimedOut, pc, op, impl, sideVars, reqVars, connVars>>

(***************************************************************************)
(* The request operations of a client, connected or not, against the PLC.  *)
(***************************************************************************)
\* transaction IDs a client holds: the first, and the last before the wrap
StartIds == {1, PtrSpace - 1}

Init ==
  /\ Sn_CR = 0 /\ Sn_IR = {}
  /\ connected \in BOOLEAN
  /\ Sn_SR = IF connected THEN SOCK_ESTABLISHED ELSE SOCK_CLOSED
  /\ startPtr = <<PtrSpace - 6, PtrSpace - 9>>
  /\ Sn_TX_WR = startPtr[1] /\ Sn_TX_RD = startPtr[1] /\ txmem = EmptyMem
  /\ Sn_RX_RD = startPtr[2] /\ Sn_RX_WR = startPtr[2] /\ rxmem = EmptyMem
  /\ Sn_RX_RSR = 0
  /\ peer_in = <<>> /\ wire = <<>> /\ holding = EmptyMem
  /\ transaction_id \in StartIds
  /\ pc = "idle" /\ op = "" /\ impl = "client"
  /\ data = <<>> /\ max_length = 0 /\ pdu = <<>> /\ frame = <<>>
  /\ tx_wr = 0 /\ rx_rd = 0 /\ rx_rsr = 0
  /\ response_data = <<>> /\ polls = 0
  /\ ret = NoRet /\ err = NoErr
  /\ start_address = 0 /\ count = 0 /\ values = <<>> /\ response = <<>>
  /\ txid0 = transaction_id
  /\ link = TRUE /\ status = 0 /\ sir = {} /\ seen = {} /\ calls = 0
  /\ written = <<>> /\ received = <<>> /\ sends = 0
  /\ cmdlog = <<>> /\ cmdTimedOut = FALSE
  /\ SideInit /\ serialized = TRUE

Next ==
  \/ Call_read_holding_registers \/ Call_read_input_registers
  \/ Call_write_single_register \/ Call_write_multiple_registers
  \/ request_start
  \/ send_modbus_frame_write \/ send_modbus_frame_ptr
  \/ send_modbus_frame_cmd \/ send_modbus_frame_wait
  \/ receive_modbus_response_poll \/ receive_modbus_response_ptr
  \/ receive_modbus_response_cmd \/ receive_modbus_response_wait
  \/ parse_response
  \/ AcceptSEND \/ AcceptRECV \/ PlcReply \/ PeerDeliver

Spec == Init /\ [][Next]_vars

(***************************************************************************)
(* SiemensModbusTCP.connect(), disconnect()      S7_1500_ModbusClient_w5500 *)
(***************************************************************************)
\* what no step of connect or disconnect touches
ConnKeeps ==
  UNCHANGED <<txVars, rxVars, netVars, transaction_id, histVars, impl, sideVars, reqVars,
              link, calls>>
\* the locals of the transport, unused here
KeepLocals ==
  UNCHANGED <<data, max_length, pdu, frame, tx_wr, rx_rd, rx_rsr, response_data>>

\* self.w5500._write_reg(0x0001, socket_bsb, c)
WriteCommand(c) ==
  /\ Sn_CR' = c
  /\ cmdlog' = Append(cmdlog, c)

\* raise Exception(e) inside connect's try: on to the except clause
ConnectRaise(e) ==
  /\ pc' = "connect_fail"
  /\ err' = e
  /\ polls' = 0
  /\ UNCHANGED <<ret, op>>

\* the value of status before connect has read the status register
Unread == 0 - 1

Call_connect ==
  /\ calls < MaxCalls
  /\ Enter("connect", "connect_start")
  /\ calls' = calls + 1
  /\ status' = Unread
  /\ sir' = {}
  /\ UNCHANGED <<ctlVars, txVars, rxVars, netVars, clientVars, localVars,
                 resVars, histVars, impl, sideVars, reqVars, link, seen>>

\* lines 99-107, 179-186: already connected: return True; otherwise
\* _close_socket(): the CLOSE command, 20 ms of sleep
connect_start ==
  /\ pc = "connect_start"
  /\ IF connected
       THEN /\ Return("True", <<>>, NoErr)
            /\ UNCHANGED <<Sn_CR, cmdlog>>
       ELSE /\ WriteCommand(CMD_CLOSE)
            /\ pc' = "connect_link"
            /\ UNCHANGED <<localVars, resVars, op>>
  /\ UNCHANGED <<Sn_SR, Sn_IR, connected, cmdTimedOut, status, sir, seen>>
  /\ ConnKeeps

\* connect without the wait for the link
connect_link_NoWait ==
  /\ pc = "connect_link"
  /\ pc' = "connect_arp"
  /\ polls' = 0
  /\ UNCHANGED <<resVars, op>>
  /\ UNCHANGED <<ctlVars, connected, cmdlog, cmdTimedOut, status, sir, seen>>
  /\ KeepLocals /\ ConnKeeps

\* lines 109-111, 188-196: _wait_for_link(): poll the PHY every 100 ms until
\* the link is up or 5000 ms are over
connect_link ==
  /\ pc = "connect_link"
  /\ IF link
       THEN /\ pc' = "connect_arp"
            /\ polls' = 0
            /\ UNCHANGED <<resVars, op>>
       ELSE IF polls < LinkPolls
         THEN /\ polls' = polls + 1
              /\ UNCHANGED <<resVars, pc, op>>
         ELSE ConnectRaise(Err("PHY link not available"))
  /\ UNCHANGED <<ctlVars, connected, cmdlog, cmdTimedOut, status, sir, seen>>
  /\ KeepLocals /\ ConnKeeps

\* lines 113-115, 198-247: _test_arp_resolution() sends a UDP datagram from
\* socket 1 and reports whether the peripheral could send it; socket 0 is
\* not involved
connect_arp ==
  /\ pc = "connect_arp"
  /\ \/ /\ pc' = "connect_open"
        /\ UNCHANGED <<polls, resVars, op>>
     \/ ConnectRaise(Err("ARP resolution failed"))
  /\ UNCHANGED <<ctlVars, connected, cmdlog, cmdTimedOut, status, sir, seen>>
  /\ KeepLocals /\ ConnKeeps

\* lines 117-123: TCP mode, local port, the OPEN command
connect_open ==
  /\ pc = "connect_open"
  /\ WriteCommand(CMD_OPEN)
  /\ pc' = "connect_open_wait"
  /\ UNCHANGED <<Sn_SR, Sn_IR, connected, localVars, resVars, cmdTimedOut, op,
                 status, sir, seen>>
  /\ ConnKeeps

\* lines 125-129: poll the command register up to 50 times, leaving the loop
\* when it reads 0; then, either way, go on
connect_open_wait ==
  /\ pc = "connect_open_wait"
  /\ cmdTimedOut' = (cmdTimedOut \/ Sn_CR # 0)
  /\ pc' = "connect_open_status"
  /\ UNCHANGED <<ctlVars, connected, localVars, resVars, cmdlog, op, status,
                 sir, seen>>
  /\ ConnKeeps

\* the status read and connect carried on whatever it is
connect_open_status_NoCheck ==
  /\ pc = "connect_open_status"
  /\ status' = Sn_SR
  /\ pc' = "connect_cmd"
  /\ UNCHANGED <<polls, resVars, op>>
  /\ UNCHANGED <<ctlVars, connected, cmdlog, cmdTimedOut, sir, seen>>
  /\ KeepLocals /\ ConnKeeps

\* lines 131-133: the status must read SOCK_INIT
connect_open_status ==
  /\ pc = "connect_open_status"
  /\ status' = Sn_SR
  /\ IF Sn_SR # SOCK_INIT
       THEN ConnectRaise([msg |-> "Socket open failed", code |-> Sn_SR])
       ELSE /\ pc' = "connect_cmd"
            /\ UNCHANGED <<polls, resVars, op>>
  /\ UNCHANGED <<ctlVars, connected, cmdlog, cmdTimedOut, sir, seen>>
  /\ KeepLocals /\ ConnKeeps

\* lines 135-144: destination address and port, all interrupt bits cleared,
\* the CONNECT command
connect_cmd ==
  /\ pc = "connect_cmd"
  /\ Sn_IR' = {}
  /\ WriteCommand(CMD_CONNECT)
  /\ polls' = 0
  /\ pc' = "connect_poll_status"
  /\ UNCHANGED <<Sn_SR, connected, resVars, cmdTimedOut, op, status, sir, seen>>
  /\ KeepLocals /\ ConnKeeps

\* lines 147-148: deadline over: raise; otherwise read the status
connect_poll_status ==
  /\ pc = "connect_poll_status"
  /\ IF polls >= ConnPolls
       THEN /\ ConnectRaise(Err("Connection timeout"))
            /\ UNCHANGED status
       ELSE /\ status' = Sn_SR
            /\ pc' = "connect_poll_sir"
            /\ UNCHANGED <<polls, resVars, op>>
  /\ UNCHANGED <<ctlVars, connected, cmdlog, cmdTimedOut, sir, seen>>
  /\ KeepLocals /\ ConnKeeps

\* the branches without the last: a CLOSED status polled again
ConnectPollOutcome_ClosedPolledAgain(st, ir) ==
  IF st = SOCK_ESTABLISHED THEN "established"
  ELSE IF IR_TIMEOUT \in ir THEN "timeout"
  ELSE "again"

\* the branches tried in another order: CLOSED before the TIMEOUT bit
ConnectPollOutcome_ClosedFirst(st, ir) ==
  IF st = SOCK_ESTABLISHED THEN "established"
  ELSE IF st = SOCK_CLOSED THEN "refused"
  ELSE IF IR_TIMEOUT \in ir THEN "timeout"
  ELSE "again"

\* lines 151-158: what a poll that read status st and interrupt bits ir does
ConnectPollOutcome(st, ir) ==
  IF st = SOCK_ESTABLISHED THEN "established"
  ELSE IF IR_TIMEOUT \in ir THEN "timeout"
  ELSE IF st = SOCK_CLOSED THEN "refused"
  ELSE "again"

\* lines 149-160: read the interrupt register and act on the two values
connect_poll_sir ==
  /\ pc = "connect_poll_sir"
  /\ sir' = Sn_IR
  /\ LET o == ConnectPollOutcome(status, Sn_IR) IN
     CASE o = "established" ->
            /\ connected' = TRUE
            /\ Return("True", <<>>, NoErr)
            /\ seen' = seen \cup {<<"Established", "True">>}
            /\ UNCHANGED Sn_IR
       [] o = "timeout" ->
            /\ Sn_IR' = Sn_IR \ {IR_TIMEOUT}
            /\ ConnectRaise(Err("Connection timeout"))
            /\ KeepLocals
            /\ UNCHANGED <<connected, seen>>
       [] o = "refused" ->
            /\ ConnectRaise(Err("Connection refused by PLC"))
            /\ KeepLocals
            /\ UNCHANGED <<Sn_IR, connected, seen>>
       [] o = "again" ->
            /\ polls' = polls + 1
            /\ pc' = "connect_poll_status"
            /\ KeepLocals
            /\ UNCHANGED <<Sn_IR, connected, resVars, op, seen>>
  /\ UNCHANGED <<Sn_CR, Sn_SR, cmdlog, cmdTimedOut, status>>
  /\ ConnKeeps

\* the outcome of a failed attempt, by the exception that ended it
FailedOutcome(e) ==
  IF e.msg = "Connection refused by PLC" THEN {"Refused"}
  ELSE IF e.msg = "Connection timeout" THEN {"Timeout"}
  ELSE {}

\* the except clause without _close_socket()
connect_fail_NoClose ==
  /\ pc = "connect_fail"
  /\ Return("False", <<>>, err)
  /\ seen' = seen \cup {<<o, "False">> : o \in FailedOutcome(err)}
  /\ UNCHANGED <<ctlVars, cmdlog, connected, cmdTimedOut, status, sir>>
  /\ ConnKeeps

\* lines 166-169: except Exception: _close_socket(), return False
connect_fail ==
  /\ pc = "connect_fail"
  /\ WriteCommand(CMD_CLOSE)
  /\ Return("False", <<>>, err)
  /\ seen' = seen \cup {<<o, "False">> : o \in FailedOutcome(err)}
  /\ UNCHANGED <<Sn_SR, Sn_IR, connected, cmdTimedOut, status, sir>>
  /\ ConnKeeps

Call_disconnect ==
  /\ calls < MaxCalls
  /\ Enter("disconnect", "disconnect_start")
  /\ calls' = calls + 1
  /\ UNCHANGED <<ctlVars, txVars, rxVars, netVars, clientVars, localVars,
                 resVars, histVars, impl, sideVars, reqVars, link, status, sir, seen>>

\* the socket closed and the flag left as it is
disconnect_start_KeepsFlag ==
  /\ pc = "disconnect_start"
  /\ IF connected
       THEN WriteCommand(CMD_CLOSE)
       ELSE UNCHANGED <<Sn_CR, cmdlog>>
  /\ Return("None", <<>>, NoErr)
  /\ UNCHANGED <<Sn_SR, Sn_IR, connected, cmdTimedOut, status, sir, seen>>
  /\ ConnKeeps

\* lines 171-177: connected: _close_socket(), connected = False
disconnect_start ==
  /\ pc = "disconnect_start"
  /\ IF connected
       THEN /\ WriteCommand(CMD_CLOSE)
            /\ connected' = FALSE
       ELSE UNCHANGED <<Sn_CR, cmdlog, connected>>
  /\ Return("None", <<>>, NoErr)
  /\ UNCHANGED <<Sn_SR, Sn_IR, cmdTimedOut, status, sir, seen>>
  /\ ConnKeeps

Call_is_connected ==
  /\ calls < MaxCalls
  /\ Enter("is_connected", "is_connected_status")
  /\ calls' = calls + 1
  /\ UNCHANGED <<ctlVars, txVars, rxVars, netVars, clientVars, localVars,
                 resVars, histVars, impl, sideVars, reqVars, link, status, sir, seen>>

\* the flag cleared when the status read is not SOCK_ESTABLISHED
is_connected_status_ClearsFlag ==
  /\ pc = "is_connected_status"
  /\ IF connected /\ Sn_SR = SOCK_ESTABLISHED
       THEN Return("True", <<>>, NoErr) /\ UNCHANGED connected
       ELSE Return("False", <<>>, NoErr) /\ connected' = FALSE
  /\ UNCHANGED <<ctlVars, cmdlog, cmdTimedOut, status, sir, seen>>
  /\ ConnKeeps

\* lines 519-530: not connected: False; otherwise read socket 0's status
\* register and return whether it is SOCK_ESTABLISHED
is_connected_status ==
  /\ pc = "is_connected_status"
  /\ IF connected /\ Sn_SR = SOCK_ESTABLISHED
       THEN Return("True", <<>>, NoErr)
       ELSE Return("False", <<>>, NoErr)
  /\ UNCHANGED <<ctlVars, connected, cmdlog, cmdTimedOut, status, sir, seen>>
  /\ ConnKeeps

Call_reconnect ==
  /\ calls < MaxCalls
  /\ Enter("reconnect", "reconnect_start")
  /\ calls' = calls + 1
  /\ status' = Unread
  /\ sir' = {}
  /\ closed' = {}
  /\ UNCHANGED <<ctlVars, txVars, rxVars, netVars, clientVars, localVars,
                 resVars, histVars, impl, reqVars, link, seen, probeVars, MR,
                 common, pairVars>>

\* what no step of reconnect before connect() touches
ReconnectKeeps ==
  UNCHANGED <<txmem, rxmem, netVars, transaction_id, localVars, resVars,
              histVars, cmdTimedOut, op, impl, reqVars, connVars, arp_cmd,
              arp_sir, arplog, pairVars>>

\* reconnect that leaves the connected flag as it is
reconnect_start_KeepsFlag ==
  /\ pc = "reconnect_start"
  /\ UNCHANGED connected
  /\ WriteCommand(CMD_CLOSE)
  /\ S1_CR' = CMD_CLOSE
  /\ closed' = Slots
  /\ pc' = "reconnect_reset"
  /\ UNCHANGED <<Sn_SR, Sn_IR, Sn_TX_WR, Sn_TX_RD, Sn_RX_RD, Sn_RX_WR,
                 Sn_RX_RSR, S1_IR, arp_fresh, MR, common>>
  /\ ReconnectKeeps

\* lines 535-536, 68-74: connected = False; _apply_arp_fix(): CLOSE written
\* to the command register of each of the 8 sockets
reconnect_start ==
  /\ pc = "reconnect_start"
  /\ connected' = FALSE
  /\ WriteCommand(CMD_CLOSE)
  /\ S1_CR' = CMD_CLOSE
  /\ closed' = Slots
  /\ pc' = "reconnect_reset"
  /\ UNCHANGED <<Sn_SR, Sn_IR, Sn_TX_WR, Sn_TX_RD, Sn_RX_RD, Sn_RX_WR,
                 Sn_RX_RSR, S1_IR, arp_fresh, MR, common>>
  /\ ReconnectKeeps

\* lines 77-78: the RST bit written to the mode register, 50 ms of sleep:
\* the software reset puts the chip's registers back to their reset values
\* and the bit clears itself
reconnect_reset ==
  /\ pc = "reconnect_reset"
  /\ MR' = {} /\ common' = CommonDefaults
  /\ Sn_CR' = 0 /\ Sn_SR' = SOCK_CLOSED /\ Sn_IR' = {}
  /\ Sn_TX_WR' = 0 /\ Sn_TX_RD' = 0
  /\ Sn_RX_RD' = 0 /\ Sn_RX_WR' = 0 /\ Sn_RX_RSR' = 0
  /\ S1_CR' = 0 /\ S1_IR' = {} /\ arp_fresh' = {}
  /\ pc' = "reconnect_farp"
  /\ UNCHANGED <<connected, cmdlog, closed>>
  /\ ReconnectKeeps

\* lines 81-82, 537-538: the mode register read and written back with the
\* FARP bit set; 100 ms of sleep; then connect()
reconnect_farp ==
  /\ pc = "reconnect_farp"
  /\ MR' = MR \cup {MR_FARP}
  /\ pc' = "connect_start"
  /\ UNCHANGED <<ctlVars, Sn_TX_WR, Sn_TX_RD, Sn_RX_RD, Sn_RX_WR, Sn_RX_RSR,
                 S1_CR, S1_IR, arp_fresh, connected, cmdlog, closed, common>>
  /\ ReconnectKeeps

(***************************************************************************)
(* SiemensModbusTCP._test_arp_resolution()       S7_1500_ModbusClient_w5500 *)
(* The probe step by step, in place of connect_arp: a UDP datagram sent    *)
(* from socket 1.  Any access to the bus may raise; the probe's except     *)
(* clause turns that into False.                                           *)
(***************************************************************************)
ProbeSteps == {"connect_arp", "arp_open", "arp_open_wait", "arp_send",
               "arp_poll_cmd", "arp_poll_sir", "arp_give_up"}

\* what no step of the probe touches
ProbeKeeps ==
  /\ UNCHANGED <<ctlVars, txVars, rxVars, netVars, clientVars, histVars, cmdlog,
                 cmdTimedOut, impl, reqVars, connVars, chipVars, pairVars>>
  /\ KeepLocals

\* self.w5500._write_reg(0x0001, socket_bsb, c) with socket_bsb = 0x05
WriteProbeCommand(c) ==
  /\ S1_CR' = c
  /\ arplog' = Append(arplog, c)

\* lines 204-206: CLOSE, 10 ms of sleep
test_arp_resolution_close ==
  /\ pc = "connect_arp"
  /\ S1_CR' = CMD_CLOSE
  /\ arplog' = <<CMD_CLOSE>>
  /\ pc' = "arp_open"
  /\ UNCHANGED <<S1_IR, arp_fresh, arp_cmd, arp_sir, polls, resVars, op>>
  /\ ProbeKeeps

\* lines 208-210: UDP mode, local port, OPEN
test_arp_resolution_open ==
  /\ pc = "arp_open"
  /\ WriteProbeCommand(CMD_OPEN)
  /\ pc' = "arp_open_wait"
  /\ UNCHANGED <<S1_IR, arp_fresh, arp_cmd, arp_sir, polls, resVars, op>>
  /\ ProbeKeeps

\* lines 213-216: poll the command register up to 50 times, leaving the loop
\* when it reads 0; then, either way, go on
test_arp_resolution_open_wait ==
  /\ pc = "arp_open_wait"
  /\ pc' = "arp_send"
  /\ UNCHANGED <<probeVars, polls, resVars, op>>
  /\ ProbeKeeps

\* lines 219-227: destination, two bytes of data, TX_WR = 2, SEND
test_arp_resolution_send ==
  /\ pc = "arp_send"
  /\ WriteProbeCommand(CMD_SEND)
  /\ arp_fresh' = {}
  /\ polls' = 0
  /\ pc' = "arp_poll_cmd"
  /\ UNCHANGED <<S1_IR, arp_cmd, arp_sir, resVars, op>>
  /\ ProbeKeeps

\* lines 230-231: the 50 polls used up: leave the loop; otherwise read the
\* command register
test_arp_resolution_poll_cmd ==
  /\ pc = "arp_poll_cmd"
  /\ IF polls >= ArpPolls
       THEN /\ pc' = "arp_give_up"
            /\ UNCHANGED arp_cmd
       ELSE /\ arp_cmd' = S1_CR
            /\ pc' = "arp_poll_sir"
  /\ UNCHANGED <<S1_CR, S1_IR, arp_fresh, arp_sir, arplog, polls, resVars, op>>
  /\ ProbeKeeps

\* SEND_OK taken for success whatever the command register read
ProbeOutcome_IgnoresCmd(c, ir) ==
  IF IR_SEND_OK \in ir THEN "sent"
  ELSE IF c = 0 /\ IR_TIMEOUT \in ir THEN "timeout"
  ELSE "again"

\* lines 234-239: what a poll that read command c and interrupt bits ir does
ProbeOutcome(c, ir) ==
  IF c = 0 /\ IR_SEND_OK \in ir THEN "sent"
  ELSE IF c = 0 /\ IR_TIMEOUT \in ir THEN "timeout"
  ELSE "again"

\* lines 232-241: read the interrupt register and act on the two values:
\* SEND_OK: CLOSE and return True; TIMEOUT: leave the loop; otherwise sleep
\* 50 ms and poll again
test_arp_resolution_poll_sir ==
  /\ pc = "arp_poll_sir"
  /\ arp_sir' = S1_IR
  /\ LET o == ProbeOutcome(arp_cmd, S1_IR) IN
     CASE o = "sent" ->
            /\ WriteProbeCommand(CMD_CLOSE)
            /\ polls' = 0
            /\ pc' = "connect_open"
       [] o = "timeout" ->
            /\ pc' = "arp_give_up"
            /\ UNCHANGED <<S1_CR, arplog, polls>>
       [] o = "again" ->
            /\ polls' = polls + 1
            /\ pc' = "arp_poll_cmd"
            /\ UNCHANGED <<S1_CR, arplog>>
  /\ UNCHANGED <<S1_IR, arp_fresh, arp_cmd, resVars, op>>
  /\ ProbeKeeps

\* lines 243-244, 114-115: CLOSE and return False; connect raises
test_arp_resolution_give_up ==
  /\ pc = "arp_give_up"
  /\ WriteProbeCommand(CMD_CLOSE)
  /\ ConnectRaise(Err("ARP resolution failed"))
  /\ UNCHANGED <<S1_IR, arp_fresh, arp_cmd, arp_sir>>
  /\ ProbeKeeps

\* lines 246-247, 114-115: an access to the bus raised: except: return False;
\* connect raises
test_arp_resolution_except ==
  /\ pc \in ProbeSteps
  /\ ConnectRaise(Err("ARP resolution failed"))
  /\ UNCHANGED probeVars
  /\ ProbeKeeps

\* what the peripheral's side of socket 1 leaves alone
ProbeEnvKeeps ==
  UNCHANGED <<ctlVars, txVars, rxVars, netVars, clientVars, localVars, resVars,
              histVars, cmdlog, cmdTimedOut, pc, op, impl, reqVars, connVars,
              arp_cmd, arp_sir, arplog, chipVars, pairVars>>

\* the peripheral takes the command written to socket 1
AcceptProbe ==
  /\ S1_CR # 0
  /\ S1_CR' = 0
  /\ UNCHANGED <<S1_IR, arp_fresh>>
  /\ ProbeEnvKeeps

\* the datagram of the probe has been sent
ProbeSent ==
  /\ S1_CR = 0
  /\ arplog # <<>> /\ arplog[Len(arplog)] = CMD_SEND
  /\ IR_SEND_OK \notin arp_fresh
  /\ S1_IR' = S1_IR \cup {IR_SEND_OK}
  /\ arp_fresh' = arp_fresh \cup {IR_SEND_OK}
  /\ UNCHANGED S1_CR
  /\ ProbeEnvKeeps

\* nobody answered the ARP request for the datagram
ProbeTimeout ==
  /\ S1_CR = 0
  /\ arplog # <<>> /\ arplog[Len(arplog)] = CMD_SEND
  /\ IR_TIMEOUT \notin arp_fresh
  /\ S1_IR' = S1_IR \cup {IR_TIMEOUT}
  /\ arp_fresh' = arp_fresh \cup {IR_TIMEOUT}
  /\ UNCHANGED S1_CR
  /\ ProbeEnvKeeps

(***************************************************************************)
(* The peripheral's connection machine, the peer and the link.             *)
(***************************************************************************)
EnvKeeps ==
  UNCHANGED <<clientVars, localVars, resVars, histVars, cmdlog, cmdTimedOut,
              pc, op, impl, sideVars, reqVars, status, sir, seen, calls>>

\* CLOSE: the socket is closed
AcceptCLOSE ==
  /\ Sn_CR = CMD_CLOSE
  /\ Sn_CR' = 0
  /\ Sn_SR' = SOCK_CLOSED
  /\ UNCHANGED <<Sn_IR, txVars, rxVars, netVars, link>>
  /\ EnvKeeps

\* OPEN: a closed socket goes to INIT, its pointers to 0
AcceptOPEN ==
  /\ Sn_CR = CMD_OPEN
  /\ Sn_CR' = 0
  /\ IF Sn_SR = SOCK_CLOSED
       THEN /\ Sn_SR' = SOCK_INIT
            /\ Sn_TX_WR' = 0 /\ Sn_TX_RD' = 0
            /\ Sn_RX_RD' = 0 /\ Sn_RX_WR' = 0 /\ Sn_RX_RSR' = 0
       ELSE UNCHANGED <<Sn_SR, Sn_TX_WR, Sn_TX_RD, Sn_RX_RD, Sn_RX_WR, Sn_RX_RSR>>
  /\ UNCHANGED <<Sn_IR, txmem, rxmem, netVars, link>>
  /\ EnvKeeps

\* CONNECT: a socket in INIT sends its SYN
AcceptCONNECT ==
  /\ Sn_CR = CMD_CONNECT
  /\ Sn_CR' = 0
  /\ Sn_SR' = IF Sn_SR = SOCK_INIT THEN SOCK_SYNSENT ELSE Sn_SR
  /\ UNCHANGED <<Sn_IR, txVars, rxVars, netVars, link>>
  /\ EnvKeeps

\* the peer accepts the connection
PeerAccept ==
  /\ Sn_SR = SOCK_SYNSENT
  /\ Sn_SR' = SOCK_ESTABLISHED
  /\ UNCHANGED <<Sn_CR, Sn_IR, txVars, rxVars, netVars, link>>
  /\ EnvKeeps

\* the peer refuses it
PeerRefuse ==
  /\ Sn_SR = SOCK_SYNSENT
  /\ Sn_SR' = SOCK_CLOSED
  /\ UNCHANGED <<Sn_CR, Sn_IR, txVars, rxVars, netVars, link>>
  /\ EnvKeeps

\* nobody answers: the peripheral gives up, raises TIMEOUT and closes
ConnectTimeout ==
  /\ Sn_SR = SOCK_SYNSENT
  /\ Sn_SR' = SOCK_CLOSED
  /\ Sn_IR' = Sn_IR \cup {IR_TIMEOUT}
  /\ UNCHANGED <<Sn_CR, txVars, rxVars, netVars, link>>
  /\ EnvKeeps

\* the peer closes an established connection
PeerClose ==
  /\ Sn_SR = SOCK_ESTABLISHED
  /\ Sn_SR' = SOCK_CLOSED
  /\ UNCHANGED <<Sn_CR, Sn_IR, txVars, rxVars, netVars, link>>
  /\ EnvKeeps

\* the cable is plugged in
LinkUp ==
  /\ ~link
  /\ link' = TRUE
  /\ UNCHANGED <<ctlVars, txVars, rxVars, netVars>>
  /\ EnvKeeps

(***************************************************************************)
(* connect and disconnect of a client just constructed.                    *)
(***************************************************************************)
InitConn ==
  /\ Sn_CR = 0 /\ Sn_SR = SOCK_CLOSED /\ Sn_IR = {}
  /\ startPtr = <<0, 0>>
  /\ Sn_TX_WR = 0 /\ Sn_TX_RD = 0 /\ txmem = EmptyMem
  /\ Sn_RX_RD = 0 /\ Sn_RX_WR = 0 /\ rxmem = EmptyMem
  /\ Sn_RX_RSR = 0
  /\ peer_in = <<>> /\ wire = <<>> /\ holding = EmptyMem
  /\ connected = FALSE /\ transaction_id = 1
  /\ pc = "idle" /\ op = "" /\ impl = "client"
  /\ data = <<>> /\ max_length = 0 /\ pdu = <<>> /\ frame = <<>>
  /\ tx_wr = 0 /\ rx_rd = 0 /\ rx_rsr = 0
  /\ response_data = <<>> /\ polls = 0
  /\ ret = NoRet /\ err = NoErr
  /\ start_address = 0 /\ count = 0 /\ values = <<>> /\ response = <<>>
  /\ txid0 = 1
  /\ link \in BOOLEAN /\ status = 0 /\ sir = {} /\ seen = {} /\ calls = 0
  /\ written = <<>> /\ received = <<>> /\ sends = 0
  /\ cmdlog = <<>> /\ cmdTimedOut = FALSE
  /\ SideInit /\ serialized = TRUE

NextConn ==
  \/ Call_connect \/ connect_start \/ connect_link \/ connect_arp
  \/ connect_open \/ connect_open_wait \/ connect_open_status \/ connect_cmd
  \/ connect_poll_status \/ connect_poll_sir \/ connect_fail
  \/ Call_disconnect \/ disconnect_start
  \/ AcceptCLOSE \/ AcceptOPEN \/ AcceptCONNECT
  \/ PeerAccept \/ PeerRefuse \/ ConnectTimeout \/ PeerClose \/ LinkUp

SpecConn == InitConn /\ [][NextConn]_vars

(***************************************************************************)
(* connect of a client just constructed, the ARP probe step by step.       *)
(***************************************************************************)
NextProbe ==
  \/ Call_connect \/ connect_start \/ connect_link
  \/ test_arp_resolution_close \/ test_arp_resolution_open
  \/ test_arp_resolution_open_wait \/ test_arp_resolution_send
  \/ test_arp_resolution_poll_cmd \/ test_arp_resolution_poll_sir
  \/ test_arp_resolution_give_up \/ test_arp_resolution_except
  \/ connect_open \/ connect_open_wait \/ connect_open_status \/ connect_cmd
  \/ connect_poll_status \/ connect_poll_sir \/ connect_fail
  \/ AcceptCLOSE \/ AcceptOPEN \/ AcceptCONNECT
  \/ PeerAccept \/ PeerRefuse \/ ConnectTimeout \/ LinkUp
  \/ AcceptProbe \/ ProbeSent \/ ProbeTimeout

SpecProbe == InitConn /\ [][NextProbe]_vars

(***************************************************************************)
(* Every operation of the client, against a peripheral, a peer and a link  *)
(* that do what they like, or nothing.  The control thread keeps running   *)
(* and its clock advances: a step of a call that can be taken is taken,    *)
(* and a pass of a deadline loop counts against the deadline.  A run calls *)
(* the connection operations or the request operations.                    *)
(***************************************************************************)
InitLive == Init \/ InitConn

\* the steps of the control thread inside a call of the client
ClientThread ==
  \/ connect_start \/ connect_link \/ connect_arp
  \/ connect_open \/ connect_open_wait \/ connect_open_status \/ connect_cmd
  \/ connect_poll_status \/ connect_poll_sir \/ connect_fail
  \/ disconnect_start
  \/ reconnect_start \/ reconnect_reset \/ reconnect_farp
  \/ request_start
  \/ send_modbus_frame_write \/ send_modbus_frame_ptr
  \/ send_modbus_frame_cmd \/ send_modbus_frame_wait
  \/ receive_modbus_response_poll \/ receive_modbus_response_ptr
  \/ receive_modbus_response_cmd \/ receive_modbus_response_wait
  \/ parse_response

NextLive ==
  \/ sends = 0 /\ Call_connect
  \/ sends = 0 /\ Call_reconnect
  \/ sends = 0 /\ Call_disconnect
  \/ calls = 0 /\ Call_read_holding_registers
  \/ calls = 0 /\ Call_read_input_registers
  \/ calls = 0 /\ Call_write_single_register
  \/ calls = 0 /\ Call_write_multiple_registers
  \/ ClientThread
  \/ AcceptSEND \/ AcceptRECV \/ PlcReply \/ PeerDeliver
  \/ AcceptCLOSE \/ AcceptOPEN \/ AcceptCONNECT
  \/ PeerAccept \/ PeerRefuse \/ ConnectTimeout \/ PeerClose \/ LinkUp

SpecLive == InitLive /\ [][NextLive]_vars /\ WF_vars(ClientThread)

(***************************************************************************)
(* The write and read-back of test_siemens_connection against a simulated  *)
(* peer that stores: a connected client writes one holding register and,   *)
(* the write having returned True, reads that register back.  The peer     *)
(* keeps what function 6 writes and answers function 3 from what it keeps;  *)
(* each answer is one TCP segment.  The peripheral takes each command      *)
(* before the client's wait for it is over, and the client is not polled   *)
(* past its response deadline.                                             *)
(***************************************************************************)
StoreAddresses == {100, PtrSpace - 1}
StoreValues == {0, 1234, PtrSpace - 1}

\* the value the storing peer holds in register a: the last one written
\* there, the PLC's own before any write
StoreRegister(a) == IF a \in DOMAIN holding THEN holding[a] ELSE PlcRegister(a)
\* n bytes of register data from register a on
StoreRegBytes(a, n) ==
  [i \in 1..n |-> PackH(StoreRegister(Mask16(a + ((i - 1) \div 2))))[2 - (i % 2)]]

\* the storing peer's response PDU to request PDU q
StoreReply(q) ==
  LET f == q[1]
      a == UnpackH(SubSeq(q, 2, 3))
      n == UnpackH(SubSeq(q, 4, 5))
  IN IF f = 6 THEN SubSeq(q, 1, 5)
     ELSE IF f = 3 THEN <<f, 2 * n>> \o StoreRegBytes(a, 2 * n)
     ELSE <<f + ExceptionBit, 1>>

\* the storing peer takes the next request frame, stores what function 6
\* writes, and answers
PeerStore ==
  /\ Len(peer_in) >= 7
  /\ LET n == 6 + UnpackH(SubSeq(peer_in, 5, 6))
         tid == UnpackH(SubSeq(peer_in, 1, 2))
         q == SubSeq(peer_in, 8, n)
         r == StoreReply(q)
     IN /\ Len(peer_in) >= n
        /\ peer_in' = SubSeq(peer_in, n + 1, Len(peer_in))
        /\ holding' = IF q[1] = 6
                        THEN (UnpackH(SubSeq(q, 2, 3)) :> UnpackH(SubSeq(q, 4, 5)))
                               @@ holding
                        ELSE holding
        /\ wire' = Append(wire, MBAP(tid, Len(r) + 1) \o r)
  /\ UNCHANGED <<ctlVars, txVars, rxVars, clientVars, localVars, resVars,
                 histVars, cmdlog, cmdTimedOut, pc, op, impl, sideVars, reqVars, connVars>>

\* line 569: client.write_single_register(a, v)
Call_store_write ==
  /\ pc = "idle" /\ sends = 0
  /\ \E a \in StoreAddresses, v \in StoreValues :
       CallRequest("write_single_register", a, 0, <<v>>)

\* lines 570-573: if success: client.read_holding_registers(a, 1)
Call_store_read ==
  /\ pc = "idle" /\ sends = 1
  /\ ret.op = "write_single_register" /\ ret.kind = "True"
  /\ CallRequest("read_holding_registers", start_address, 1, values)

InitStore == Init /\ connected

NextStore ==
  \/ Call_store_write \/ Call_store_read
  \/ request_start
  \/ send_modbus_frame_write \/ send_modbus_frame_ptr
  \/ send_modbus_frame_cmd
  \/ Sn_CR = 0 /\ send_modbus_frame_wait
  \/ polls < RespPolls /\ receive_modbus_response_poll
  \/ receive_modbus_response_ptr
  \/ receive_modbus_response_cmd
  \/ Sn_CR = 0 /\ receive_modbus_response_wait
  \/ parse_response
  \/ AcceptSEND \/ AcceptRECV \/ PeerStore \/ PeerDeliver

SpecStore == InitStore /\ [][NextStore]_vars

(***************************************************************************)
(* Requests that follow each other on one session: a connected client      *)
(* reads one holding register, and again.  The peer answers every frame it *)
(* gets, when it gets to it; the peripheral takes a command when it does.  *)
(***************************************************************************)
\* requests made in one run of SpecLate
MaxLateReads == 2
LateAddresses == {258, 300}

Call_late_read ==
  /\ pc = "idle" /\ sends < MaxLateReads
  /\ \E a \in LateAddresses :
       CallRequest("read_holding_registers", a, 1, <<>>)

NextLate ==
  \/ Call_late_read
  \/ request_start
  \/ send_modbus_frame_write \/ send_modbus_frame_ptr
  \/ send_modbus_frame_cmd \/ send_modbus_frame_wait
  \/ receive_modbus_response_poll \/ receive_modbus_response_ptr
  \/ receive_modbus_response_cmd \/ receive_modbus_response_wait
  \/ parse_response
  \/ AcceptSEND \/ AcceptRECV \/ PeerStore \/ PeerDeliver

SpecLate == InitStore /\ [][NextLate]_vars

(***************************************************************************)
(* Requests that follow each other on one session against the PLC, whose   *)
(* answer travels as one TCP segment or as two.  The peripheral takes each *)
(* command before the client's wait for it is over.                        *)
(***************************************************************************)
NextFrames ==
  \/ Call_late_read
  \/ request_start
  \/ send_modbus_frame_write \/ send_modbus_frame_ptr
  \/ send_modbus_frame_cmd
  \/ Sn_CR = 0 /\ send_modbus_frame_wait
  \/ receive_modbus_response_poll \/ receive_modbus_response_ptr
  \/ receive_modbus_response_cmd
  \/ Sn_CR = 0 /\ receive_modbus_response_wait
  \/ parse_response
  \/ AcceptSEND \/ AcceptRECV \/ PlcReply \/ PeerDeliver

SpecFrames == InitStore /\ [][NextFrames]_vars

(***************************************************************************)
(* W5500.socket_open, socket_close, socket_connect          w5500_driver.py *)
(***************************************************************************)
\* what no step of the three touches
DriverKeeps ==
  UNCHANGED <<Sn_SR, Sn_IR, txVars, rxVars, netVars, clientVars, histVars,
              impl, sideVars, reqVars, link, status, sir, seen>>

\* one of the three is called
CallDriver(o, p) ==
  /\ calls < MaxCalls
  /\ Enter(o, p)
  /\ calls' = calls + 1
  /\ UNCHANGED <<Sn_CR, localVars, resVars>>
  /\ DriverKeeps

\* mode, port or destination written, then the command
DriverCommand(c, p) ==
  /\ WriteCommand(c)
  /\ pc' = p
  /\ UNCHANGED <<localVars, resVars, cmdTimedOut, op, calls>>
  /\ DriverKeeps

\* while self._read_reg(_Sn_CR, socket_bsb, 1)[0] != 0: time.sleep_ms(1)
\* the loop is left when the command register reads 0, and only then
DriverWait(v) ==
  /\ Sn_CR = 0
  /\ Return("value", v, NoErr)
  /\ UNCHANGED <<Sn_CR, cmdlog, cmdTimedOut, calls>>
  /\ DriverKeeps

Call_socket_open ==
  /\ impl = "driver"
  /\ CallDriver("socket_open", "socket_open_cmd")
\* lines 233-240
socket_open_cmd ==
  /\ pc = "socket_open_cmd"
  /\ DriverCommand(CMD_OPEN, "socket_open_wait")
\* lines 242-248: wait, then return the status read
socket_open_wait ==
  /\ pc = "socket_open_wait"
  /\ DriverWait(<<Sn_SR>>)

Call_socket_close ==
  /\ impl = "driver"
  /\ CallDriver("socket_close", "socket_close_cmd")
\* lines 252-253
socket_close_cmd ==
  /\ pc = "socket_close_cmd"
  /\ DriverCommand(CMD_CLOSE, "socket_close_wait")
\* lines 255-257
socket_close_wait ==
  /\ pc = "socket_close_wait"
  /\ DriverWait(<<>>)

Call_socket_connect ==
  /\ impl = "driver"
  /\ CallDriver("socket_connect", "socket_connect_cmd")
\* lines 266-277
socket_connect_cmd ==
  /\ pc = "socket_connect_cmd"
  /\ DriverCommand(CMD_CONNECT, "socket_connect_wait")
\* lines 279-281
socket_connect_wait ==
  /\ pc = "socket_connect_wait"
  /\ DriverWait(<<>>)

\* payload lengths of socket_send: one byte, and one byte more than the TX
\* buffer of the socket holds
BlockLengths == {1, TxBufSize + 1}

\* W5500.socket_send(0, data) with a block of data
Call_socket_send_block ==
  /\ impl = "driver"
  /\ sends < MaxSends
  /\ Enter("socket_send", "socket_send_write")
  /\ \E n \in BlockLengths :
       /\ data' = Payload(n)
       /\ written' = written \o Payload(n)
  /\ sends' = sends + 1
  /\ UNCHANGED <<ctlVars, txVars, rxVars, netVars, clientVars, max_length, pdu,
                 frame, tx_wr, rx_rd, rx_rsr, response_data, polls, resVars,
                 received, startPtr, impl, sideVars, reqVars, connVars>>

(***************************************************************************)
(* The driver's socket operations on socket 0, against a peripheral that   *)
(* accepts a command when it likes, or never.  The control thread keeps    *)
(* running: a step of a call that can be taken is taken.                   *)
(***************************************************************************)
\* a segment the peer of an established socket has sent
Greeting == <<7, 9>>

InitDriver ==
  /\ Sn_CR = 0 /\ Sn_IR = {}
  /\ Sn_SR \in {SOCK_CLOSED, SOCK_ESTABLISHED}
  /\ startPtr = <<0, 0>>
  /\ Sn_TX_WR = 0 /\ Sn_TX_RD = 0 /\ txmem = EmptyMem
  /\ Sn_RX_RD = 0 /\ Sn_RX_WR = 0 /\ rxmem = EmptyMem
  /\ Sn_RX_RSR = 0
  /\ peer_in = <<>> /\ holding = EmptyMem
  /\ wire = IF Sn_SR = SOCK_ESTABLISHED THEN <<Greeting>> ELSE <<>>
  /\ connected = FALSE /\ transaction_id = 1
  /\ pc = "idle" /\ op = "" /\ impl = "driver"
  /\ data = <<>> /\ max_length = 0 /\ pdu = <<>> /\ frame = <<>>
  /\ tx_wr = 0 /\ rx_rd = 0 /\ rx_rsr = 0
  /\ response_data = <<>> /\ polls = 0
  /\ ret = NoRet /\ err = NoErr
  /\ start_address = 0 /\ count = 0 /\ values = <<>> /\ response = <<>>
  /\ txid0 = 1
  /\ link = TRUE /\ status = 0 /\ sir = {} /\ seen = {} /\ calls = 0
  /\ written = <<>> /\ received = <<>> /\ sends = 0
  /\ cmdlog = <<>> /\ cmdTimedOut = FALSE
  /\ SideInit /\ serialized = TRUE

\* the steps of the control thread inside a call of the driver
DriverThread ==
  \/ socket_open_cmd \/ socket_open_wait
  \/ socket_close_cmd \/ socket_close_wait
  \/ socket_connect_cmd \/ socket_connect_wait
  \/ socket_send_write \/ socket_send_ptr \/ socket_send_cmd \/ socket_send_wait
  \/ socket_recv_size \/ socket_recv_ptr \/ socket_recv_cmd \/ socket_recv_wait

NextDriver ==
  \/ Call_socket_open \/ Call_socket_close \/ Call_socket_connect
  \/ Call_socket_send \/ Call_socket_recv
  \/ DriverThread
  \/ AcceptOPEN \/ AcceptCLOSE \/ AcceptCONNECT \/ AcceptSEND \/ AcceptRECV
  \/ PeerAccept \/ PeerDeliver

SpecDriver == InitDriver /\ [][NextDriver]_vars /\ WF_vars(DriverThread)

(***************************************************************************)
(* connect, disconnect and is_connected of a client just constructed.      *)
(***************************************************************************)
NextQuery ==
  \/ NextConn
  \/ Call_is_connected \/ is_connected_status

SpecQuery == InitConn /\ [][NextQuery]_vars

(***************************************************************************)
(* A session: connect, disconnect and the request operations in one run,   *)
(* on a client connected or not, against the PLC.                          *)
(***************************************************************************)
NextSession ==
  \/ Call_connect \/ connect_start \/ connect_link \/ connect_arp
  \/ connect_open \/ connect_open_wait \/ connect_open_status \/ connect_cmd
  \/ connect_poll_status \/ connect_poll_sir \/ connect_fail
  \/ Call_disconnect \/ disconnect_start
  \/ AcceptCLOSE \/ AcceptOPEN \/ AcceptCONNECT
  \/ PeerAccept \/ PeerRefuse \/ ConnectTimeout \/ PeerClose
  \/ Next

SpecSession == Init /\ [][NextSession]_vars

(***************************************************************************)
(* Reads from the RX ring by either implementation: W5500.socket_recv, and *)
(* _receive_modbus_response inside a request of the client, against a peer *)
(* that sends back what it received, in one segment or in two.             *)
(***************************************************************************)
\* requests of the client in a run
MaxReadRequests == 1

NextRead ==
  \/ Call_socket_send \/ socket_send_write \/ socket_send_ptr
  \/ socket_send_cmd \/ socket_send_wait
  \/ Call_socket_recv \/ socket_recv_size \/ socket_recv_ptr
  \/ socket_recv_cmd \/ socket_recv_wait
  \/ impl = "client" /\ sends < MaxReadRequests /\ Call_late_read
  \/ request_start
  \/ send_modbus_frame_write \/ send_modbus_frame_ptr
  \/ send_modbus_frame_cmd \/ send_modbus_frame_wait
  \/ receive_modbus_response_poll \/ receive_modbus_response_ptr
  \/ receive_modbus_response_cmd \/ receive_modbus_response_wait
  \/ parse_response
  \/ AcceptSEND \/ AcceptRECV \/ PeerEcho \/ PeerDeliver

SpecRead == InitRing /\ [][NextRead]_vars

(***************************************************************************)
(* Blocks of data sent and segments received through the driver.           *)
(***************************************************************************)
NextBlock ==
  \/ Call_socket_send_block \/ socket_send_write \/ socket_send_ptr
  \/ socket_send_cmd \/ socket_send_wait
  \/ Call_socket_recv \/ socket_recv_size \/ socket_recv_ptr
  \/ socket_recv_cmd \/ socket_recv_wait
  \/ AcceptSEND \/ AcceptRECV \/ PeerDeliver

SpecBlock == InitDriver /\ [][NextBlock]_vars


(***************************************************************************)
(*                              PROPERTIES                                 *)
(***************************************************************************)
\* the current step writes command c to Sn_CR
Issues(c) ==
  /\ Len(cmdlog') = Len(cmdlog) + 1
  /\ cmdlog'[Len(cmdlog')] = c

\* what the send in progress transmits
SendPayload == IF op = "socket_send" THEN data ELSE frame

(* C9: in W5500.socket_send and in SiemensModbusTCP._send_modbus_frame, at  *)
(* the step that writes SEND to the command register the payload bytes are  *)
(* already in the TX buffer at (old pointer + i) mod 65536 and the TX write *)
(* pointer register already holds (old pointer + payload length) mod 65536. *)
C9_PointerBeforeSend ==
  [][Issues(CMD_SEND) =>
       /\ Sn_TX_WR = Mask16(tx_wr + Len(SendPayload))
       /\ \A i \in 1..Len(SendPayload) :
            MemRead(txmem, Mask16(tx_wr + i - 1)) = SendPayload[i]]_vars

\* a SEND written, by either implementation, for a payload that crosses the
\* wrap of the pointer space
C9_Witness ==
  /\ pc \in {"socket_send_wait", "send_modbus_frame_wait"}
  /\ cmdlog = <<CMD_SEND>>
  /\ Len(SendPayload) >= 2
  /\ Sn_TX_WR < tx_wr
  /\ sends = 2

\* everything sent has been echoed, delivered and read
RingQuiet ==
  /\ pc = "idle" /\ Sn_CR = 0
  /\ Sn_TX_RD = Sn_TX_WR
  /\ peer_in = <<>> /\ wire = <<>>
  /\ Sn_RX_RSR = 0

(* C10: against an echoing peer, the bytes W5500.socket_recv returns are,   *)
(* in order, the bytes W5500.socket_send was given: always a prefix of      *)
(* them, and all of them once the echo has been read completely; between    *)
(* calls the TX write pointer is its start plus the bytes sent and the RX   *)
(* read pointer its start plus the bytes read, both mod 65536.              *)
C10_RingRoundTrip ==
  impl = "driver" =>
    /\ Len(received) <= Len(written)
    /\ received = SubSeq(written, 1, Len(received))
    /\ pc = "idle" =>
         /\ Sn_TX_WR = Mask16(startPtr[1] + Len(written))
         /\ Sn_RX_RD = Mask16(startPtr[2] + Len(received))
    /\ RingQuiet => received = written

\* a complete round trip in which both pointers wrapped
C10_Witness ==
  /\ impl = "driver"
  /\ RingQuiet
  /\ Len(written) >= 3
  /\ received = written
  /\ Sn_TX_WR < startPtr[1]
  /\ Sn_RX_RD < startPtr[2]

\* a request operation has returned to its caller
RequestDone == pc = "idle" /\ ret.op \in RequestOps
\* it wrote SEND to the command register
FrameSent == CMD_SEND \in Range(cmdlog)
\* its arguments were within the Modbus limits
WithinLimits ==
  /\ ret.op \in ReadOps => count <= MaxReadCount
  /\ ret.op = "write_multiple_registers" => Len(values) <= MaxWriteCount

(* C1: once a wait for the command register has used up its 50 polls       *)
(* without reading zero, the operation has ended, with a command-timeout    *)
(* failure: it is not at any later step of the call, and it has not         *)
(* returned anything else.                                                  *)
C1_CommandTimeoutFails ==
  cmdTimedOut =>
    /\ pc = "idle"
    /\ ret.kind \in {"None", "False", "raise"}
    /\ err.msg = "Command timeout"

\* a poll of connect's loop read the status as CLOSED, before the deadline,
\* and the attempt has ended in the except clause
ClosedPollEnded ==
  /\ pc = "connect_fail"
  /\ CMD_CONNECT \in Range(cmdlog)
  /\ status = SOCK_CLOSED

(* C2, as stated: whatever the interrupt register holds, a connect attempt  *)
(* whose poll read the status as CLOSED before the deadline ends as         *)
(* "Connection refused by PLC", never as "Connection timeout".              *)
C2_ClosedIsRefused ==
  ClosedPollEnded => err.msg = "Connection refused by PLC"

(* C2, amended: a connect attempt whose poll read the status as CLOSED      *)
(* before the deadline ends as "Connection refused by PLC" when the same    *)
(* poll read the interrupt register with the TIMEOUT bit clear, and as      *)
(* "Connection timeout" when it read the TIMEOUT bit set.                   *)
C2_ClosedIsRefusedUnlessTimeoutBit ==
  ClosedPollEnded =>
    err.msg = IF IR_TIMEOUT \in sir THEN "Connection timeout"
              ELSE "Connection refused by PLC"

\* the peer refused: CLOSED read with the TIMEOUT bit clear, Refused raised
C2_Witness ==
  /\ ClosedPollEnded
  /\ IR_TIMEOUT \notin sir
  /\ Sn_SR = SOCK_CLOSED
  /\ err.msg = "Connection refused by PLC"

(* C3: at the step at which connect() returns True, either the call has     *)
(* read the status register as ESTABLISHED or the register holds            *)
(* ESTABLISHED; calls made with the connected flag set are included.        *)
C3_TrueMeansEstablished ==
  [][(pc # "idle" /\ pc' = "idle" /\ ret'.op = "connect" /\ ret'.kind = "True")
       => (status' = SOCK_ESTABLISHED \/ Sn_SR' = SOCK_ESTABLISHED)]_vars

(* C4: over the connect attempts of a run, attempts with different          *)
(* outcomes (Established, Refused, Timeout) hand different results to       *)
(* their callers.                                                           *)
C4_ResultsDiffer ==
  \A p \in seen : \A q \in seen : p[1] # q[1] => p[2] # q[2]

(* C5, as stated: after every call of a request operation, whatever its     *)
(* outcome, the transaction ID is its value at the call plus 1 mod 65536.   *)
C5_TxidAfterEveryRequest ==
  RequestDone => transaction_id = Mask16(txid0 + 1)

(* C5, amended: a request operation sends a frame exactly when the client   *)
(* is connected and the arguments are within the limits; after a call that  *)
(* sent a frame, whatever its outcome, the transaction ID is its value at   *)
(* the call plus 1 mod 65536; after a call that sent none it is unchanged.  *)
C5_TxidAfterFrameSent ==
  RequestDone =>
    /\ FrameSent <=> (connected /\ WithinLimits)
    /\ transaction_id = IF FrameSent THEN Mask16(txid0 + 1) ELSE txid0

\* a request that sent its frame with the last ID before the wrap and failed
C5_Witness ==
  /\ RequestDone
  /\ FrameSent
  /\ ret.kind = "None"
  /\ err.msg = "Response timeout"
  /\ txid0 = PtrSpace - 1
  /\ transaction_id = 0

(* C6: with every command accepted within its budget, when a request       *)
(* operation starts parsing, the response holds at least 8 bytes; and when  *)
(* a read operation starts parsing before the deadline, the response holds  *)
(* the whole frame: 9 bytes at least, and 9 + byteCount when it echoes the  *)
(* function code.                                                           *)
C6_CompleteBeforeResult ==
  (pc = "parse_response" /\ ~cmdTimedOut) =>
    /\ Len(response) >= 8
    /\ (op \in ReadOps /\ polls < RespPolls) =>
         /\ Len(response) >= 9
         /\ response[8] = FuncCode(op) => Len(response) >= 9 + response[9]

(* C7: read_holding_registers(addr, count), count in 1..125, with every     *)
(* command accepted within its budget, given a complete response that       *)
(* echoes function 3: returns exactly count values when the byte-count      *)
(* field is 2*count, and returns no register list when the field is         *)
(* anything else.                                                           *)
C7_ByteCountMatchesCount ==
  ( /\ RequestDone
    /\ ~cmdTimedOut
    /\ ret.op = "read_holding_registers"
    /\ count \in 1..MaxReadCount
    /\ Len(response) >= 9
    /\ response[8] = 3
    /\ Len(response) >= 9 + response[9] ) =>
      IF response[9] = 2 * count
        THEN ret.kind = "value" /\ Len(ret.val) = count
        ELSE ret.kind # "value"

(* C8: a request operation for function f, with every command accepted     *)
(* within its budget, given a response of 9 bytes or more: a well-formed response echoing f returns success; one carrying     *)
(* f + 0x80 returns a Modbus exception with the code of response byte 8;    *)
(* one carrying any other function code returns a protocol violation: the   *)
(* three results, and a timeout's, differ in what the caller is handed.     *)
C8_ResponseClasses ==
  (RequestDone /\ ~cmdTimedOut /\ Len(response) >= 9) =>
    LET f == FuncCode(ret.op)
        g == response[8]
        wellFormed == ret.op \in ReadOps =>
                        /\ response[9] = 2 * count
                        /\ Len(response) = 9 + response[9]
    IN /\ (g = f /\ wellFormed) => ret.kind \in {"value", "True"}
       /\ g = f + ExceptionBit =>
            /\ ret.kind = "ModbusException"
            /\ ret.val = <<response[9]>>
       /\ g \notin {f, f + ExceptionBit} => ret.kind = "ProtocolViolation"

(* C11: a call of W5500.socket_recv that sampled a nonzero received size    *)
(* rx_rsr has read exactly rx_rsr bytes, whatever max_length is, and from   *)
(* the step that writes the RX read pointer on, the register holds the      *)
(* pointer it read plus rx_rsr, mod 65536.                                  *)
C11_RecvReadsSampledSize ==
  (op = "socket_recv" /\ pc # "socket_recv_size") =>
    /\ Len(data) = rx_rsr
    /\ pc \in {"socket_recv_cmd", "socket_recv_wait"} =>
         Sn_RX_RD = Mask16(rx_rd + rx_rsr)

(* C12: in every reachable state the bytes placed in the TX ring and not    *)
(* yet taken by the peripheral, TX write pointer minus TX read pointer mod  *)
(* 65536, are no more than the 2048 bytes of the socket's TX buffer.        *)
C12_InFlightWithinBuffer ==
  Mask16(Sn_TX_WR - Sn_TX_RD) <= TxBufSize

(* C13: every call of a driver socket operation returns or fails, also      *)
(* when the peripheral never clears the command register.                   *)
C13_DriverCallsEnd ==
  (pc # "idle") ~> (pc = "idle")

(* C14: every call of connect, reconnect and the four request operations    *)
(* returns to its caller, whatever the peripheral, the peer and the link    *)
(* do: the link never up, the command register never cleared, the status    *)
(* never past INIT, no response ever received.                              *)
C14_ClientCallsReturn ==
  (op \in RequestOps \cup {"connect", "reconnect"}) ~> (op = "")

(* C15: at the step of connect that writes OPEN to the command register,    *)
(* the attempt has written CLOSE and has since read the status register:    *)
(* as CLOSED, or as whatever it held when the settle budget ran out.        *)
C15_StatusInspectedBeforeOpen ==
  [][(op = "connect" /\ Issues(CMD_OPEN)) =>
       /\ CMD_CLOSE \in Range(cmdlog)
       /\ status # Unread]_vars

(* C16: in connect's wait for the connection, a poll that read a status     *)
(* other than ESTABLISHED and then reads the TIMEOUT bit set, or that read  *)
(* the status as CLOSED, goes to the except clause at that poll, with the   *)
(* connected flag False; and the except clause writes CLOSE to the command  *)
(* register and returns False, the flag still False: no status poll         *)
(* follows in that attempt.                                                 *)
C16_TerminalPollEndsAttempt ==
  [][/\ ( /\ pc = "connect_poll_sir" /\ pc' # pc
          /\ status # SOCK_ESTABLISHED
          /\ (IR_TIMEOUT \in sir' \/ status = SOCK_CLOSED) )
          => (pc' = "connect_fail" /\ ~connected')
     /\ (pc = "connect_fail" /\ pc' # pc)
          => /\ Issues(CMD_CLOSE)
             /\ pc' = "idle"
             /\ ret'.kind = "False"
             /\ ~connected']_vars

\* an attempt ended by a poll that read CLOSED and the TIMEOUT bit: CLOSE
\* is the last command written, the flag is False
C16_Witness ==
  /\ pc = "idle"
  /\ ret.op = "connect" /\ ret.kind = "False"
  /\ status = SOCK_CLOSED /\ IR_TIMEOUT \in sir
  /\ cmdlog = <<CMD_CLOSE, CMD_OPEN, CMD_CONNECT, CMD_CLOSE>>
  /\ ~connected

\* f is the frame of the request in progress, byte by byte
FrameLayout(f) ==
  /\ Len(f) >= 12
  /\ \A i \in 1..Len(f) : f[i] \in 0..255
  /\ 256 * f[1] + f[2] = txid0
  /\ f[3] = 0 /\ f[4] = 0
  /\ 256 * f[5] + f[6] = (Len(f) - 7) + 1
  /\ f[7] = 1
  /\ 256 * f[9] + f[10] = start_address
  /\ op = "read_holding_registers" =>
       f[8] = 3 /\ Len(f) = 12 /\ 256 * f[11] + f[12] = count
  /\ op = "read_input_registers" =>
       f[8] = 4 /\ Len(f) = 12 /\ 256 * f[11] + f[12] = count
  /\ op = "write_single_register" =>
       f[8] = 6 /\ Len(f) = 12 /\ 256 * f[11] + f[12] = values[1] % 65536
  /\ op = "write_multiple_registers" =>
       /\ f[8] = 16 /\ Len(f) = 13 + 2 * Len(values)
       /\ 256 * f[11] + f[12] = Len(values)
       /\ f[13] = 2 * Len(values)
       /\ \A k \in 1..Len(values) :
            256 * f[12 + 2 * k] + f[13 + 2 * k] = values[k] % 65536

(* C17: the bytes the peripheral transmits for the frame of a request       *)
(* operation are the 7-byte MBAP header (transaction ID big-endian,         *)
(* protocol ID 0, length = PDU length + 1 big-endian, unit ID) and the PDU  *)
(* of the function: 3 or 4: code, start address, count; 6: code, address,   *)
(* value mod 65536; 16: code, start address, value count, byte count =      *)
(* 2 * value count, each value mod 65536 as 2 big-endian bytes, in order.   *)
C17_FrameFormat ==
  [][( /\ Sn_CR = CMD_SEND /\ Sn_CR' = 0
       /\ Sn_SR = SOCK_ESTABLISHED
       /\ op \in RequestOps /\ frame # <<>>
       /\ Sn_TX_RD = tx_wr )
       => /\ Len(peer_in') = Len(peer_in) + Len(frame)
          /\ FrameLayout(SubSeq(peer_in', Len(peer_in) + 1, Len(peer_in')))]_vars

\* the frame of write_multiple_registers(258, [4660, 65541]) with the last
\* transaction ID before the wrap, transmitted across the wrap of the ring
C17_Witness ==
  /\ op = "write_multiple_registers"
  /\ Sn_CR = 0 /\ peer_in = frame
  /\ peer_in = <<255, 255, 0, 0, 0, 11, 1, 16, 1, 2, 0, 2, 4, 18, 52, 0, 5>>

(* C18: when a read operation returns a register list, the response echoes  *)
(* its function code with a byte count of 2n and 2n data bytes, and the     *)
(* list has n elements, element i being 256 * (data byte 2i) + (data byte   *)
(* 2i+1), a value in 0..65535, in the order of the wire.                    *)
C18_RegistersBigEndianInOrder ==
  (RequestDone /\ ret.op \in ReadOps /\ ret.kind = "value") =>
    LET n == response[9] \div 2 IN
    /\ response[8] = FuncCode(ret.op)
    /\ response[9] = 2 * n
    /\ Len(response) >= 9 + 2 * n
    /\ Len(ret.val) = n
    /\ \A i \in 1..n :
         /\ ret.val[i] = 256 * response[8 + 2 * i] + response[9 + 2 * i]
         /\ ret.val[i] \in 0..65535

\* read_input_registers(258, 2) has returned the two registers of the PLC
C18_Witness ==
  /\ RequestDone
  /\ ret.op = "read_input_registers" /\ ret.kind = "value"
  /\ count = 2
  /\ ret.val = <<PlcRegister(258), PlcRegister(259)>>
  /\ ret.val[1] # ret.val[2]

\* reconnect has returned although a wait for the command register gave up
C14_Witness ==
  /\ pc = "idle"
  /\ ret.op = "reconnect"
  /\ ret.kind = "False"
  /\ cmdTimedOut

(* C19: against the storing peer, once write_single_register(a, v) has     *)
(* returned True, the read_holding_registers(a, 1) that follows returns    *)
(* the list [v], for the addresses a and the values v in 0..65535 tried.    *)
C19_ReadBackIsWritten ==
  (RequestDone /\ sends = 2) =>
    /\ ret.op = "read_holding_registers"
    /\ ret.kind = "value"
    /\ ret.val = <<values[1]>>

\* 65535 written to register 65535 and read back, the rings and the
\* transaction ID having wrapped on the way
C19_Witness ==
  /\ RequestDone /\ sends = 2
  /\ ret.op = "read_holding_registers"
  /\ start_address = PtrSpace - 1
  /\ ret.val = <<PtrSpace - 1>>
  /\ holding = (PtrSpace - 1) :> (PtrSpace - 1)
  /\ transaction_id = 1
  /\ Sn_TX_WR < startPtr[1] /\ Sn_RX_RD < startPtr[2]


\* the call in progress is over the Modbus limit of its operation
OverLimit ==
  \/ op \in ReadOps /\ count > MaxReadCount
  \/ op = "write_multiple_registers" /\ Len(values) > MaxWriteCount

(* C20: a read of more than 125 registers, or a write of more than 123      *)
(* values, is rejected at the first step of the call: that step ends the    *)
(* call with the error raised to the caller, the call has written no        *)
(* command, and the step leaves the command, status and interrupt           *)
(* registers, the TX pointers and buffer, the bytes handed to the peer, the *)
(* connected flag and the transaction ID as they were.                      *)
C20_OverLimitRejectedFirst ==
  [][(pc = "request_start" /\ pc' # pc /\ OverLimit)
       => /\ pc' = "idle"
          /\ ret'.op = op /\ ret'.kind = "raise"
          /\ err'.msg \in {"Maximum 125 registers per request",
                           "Maximum 123 registers per request"}
          /\ cmdlog = <<>> /\ cmdlog' = <<>>
          /\ UNCHANGED <<ctlVars, txVars, peer_in, clientVars, written>>]_vars

\* write_multiple_registers with 124 values rejected on a connected client
\* whose socket is established
C20_Witness ==
  /\ pc = "idle"
  /\ ret.op = "write_multiple_registers" /\ ret.kind = "raise"
  /\ err.msg = "Maximum 123 registers per request"
  /\ Len(values) = MaxWriteCount + 1
  /\ connected /\ Sn_SR = SOCK_ESTABLISHED
  /\ cmdlog = <<>>


\* the last request operation to return had sent its frame and failed on
\* the transport: no response within the deadline
TransactionFailed ==
  /\ ret.op \in RequestOps
  /\ err.msg = "Response timeout"

(* C21: once a request on an established session has failed with a         *)
(* response timeout, the client no longer holds itself connected, and no   *)
(* request writes SEND after it (no connect or reconnect lying between).    *)
C21_FailureEndsSession ==
  [][(TransactionFailed /\ op \in RequestOps)
       => (~connected /\ ~Issues(CMD_SEND))]_vars

(* C29: every register list a request operation returns was decoded from  *)
(* a response whose transaction ID is the one the request sent.            *)
C29_ResultCarriesOwnId ==
  (RequestDone /\ ret.kind = "value") =>
    UnpackH(SubSeq(response, 1, 2)) = txid0


\* the SEND commands the current call has written
SendsIssued == Cardinality({i \in DOMAIN cmdlog : cmdlog[i] = CMD_SEND})

(* C23: a call of a request operation writes SEND at most once, whatever   *)
(* comes back: a response too short or incomplete, an unexpected function  *)
(* code, a Modbus exception response, or nothing.                          *)
C23_OneSendPerCall ==
  (op \in RequestOps \/ RequestDone) => SendsIssued <= 1

\* read_holding_registers or read_input_registers has returned after a
\* Modbus exception response, having written SEND once
C23_Witness ==
  /\ RequestDone
  /\ ret.op \in ReadOps /\ ret.kind = "None"
  /\ err = [msg |-> "Modbus error", code |-> 2]
  /\ SendsIssued = 1


C30_ReconnectResetsId ==
  (pc = "idle" /\ ret.op = "reconnect") => transaction_id = 1


\* the current step is the one at which _test_arp_resolution returns
ProbeReturns == pc \in ProbeSteps /\ pc' \notin ProbeSteps

(* C24: whenever _test_arp_resolution returns after having written OPEN to *)
(* socket 1, the last command it wrote to that socket is a CLOSE, written  *)
(* after the OPEN.                                                         *)
C24_ProbeSocketClosed ==
  [][(ProbeReturns /\ CMD_OPEN \in Range(arplog))
       => arplog'[Len(arplog')] = CMD_CLOSE]_vars

\* the current step is the bus raising inside the probe
ProbeRaises ==
  /\ pc \in ProbeSteps /\ pc' = "connect_fail"
  /\ arplog' = arplog
\* the current step is a poll of the probe reading the interrupt register
PollReads ==
  /\ pc = "arp_poll_sir" /\ pc' # pc
  /\ ~ProbeRaises
  /\ arp_sir' = S1_IR

(* C25: _test_arp_resolution returns True exactly at a poll, within the    *)
(* budget, that read the command register as 0 and reads SEND_OK in the    *)
(* interrupt register; otherwise it returns False and connect fails with   *)
(* "ARP resolution failed"; in particular it returns False at a poll that  *)
(* read the command register as 0 and reads TIMEOUT without SEND_OK.  A    *)
(* connect that failed so has written neither OPEN nor CONNECT to socket 0. *)
C25_ProbeTrueIffSendOk ==
  /\ [][ProbeReturns
          => /\ (pc' = "connect_open")
                  <=> (/\ PollReads /\ polls < ArpPolls
                       /\ arp_cmd = 0 /\ IR_SEND_OK \in arp_sir')
             /\ (pc' # "connect_open")
                  => (pc' = "connect_fail" /\ err'.msg = "ARP resolution failed")]_vars
  /\ [][(PollReads /\ arp_cmd = 0
           /\ IR_TIMEOUT \in arp_sir' /\ IR_SEND_OK \notin arp_sir')
          => pc' = "arp_give_up"]_vars
  /\ []((/\ pc = "connect_fail" \/ (pc = "idle" /\ ret.op = "connect")
         /\ err.msg = "ARP resolution failed")
          => (CMD_OPEN \notin Range(cmdlog) /\ CMD_CONNECT \notin Range(cmdlog)))

\* connect has returned False after a probe that read TIMEOUT without
\* SEND_OK: CLOSE is all socket 0 was sent
C25_Witness ==
  /\ pc = "idle"
  /\ ret.op = "connect" /\ ret.kind = "False"
  /\ err.msg = "ARP resolution failed"
  /\ arp_cmd = 0 /\ arp_sir = {IR_TIMEOUT}
  /\ arplog = <<CMD_CLOSE, CMD_OPEN, CMD_SEND, CMD_CLOSE>>
  /\ cmdlog = <<CMD_CLOSE, CMD_CLOSE>>


\* connect is in, or has failed in, its wait for the link
LinkWaitOnly ==
  /\ op = "connect"
  /\ \/ pc \in {"connect_start", "connect_link"}
     \/ pc = "connect_fail" /\ err.msg = "PHY link not available"

(* C26: a poll of the link that finds it down with the budget of           *)
(* _wait_for_link used up makes connect fail with "PHY link not            *)
(* available", and up to its return that connect writes no command of the  *)
(* ARP probe to socket 1 and neither OPEN nor CONNECT to socket 0; a poll   *)
(* that finds the link up ends the wait, and connect goes on to the probe.  *)
C26_NoLinkNoProbeNoOpen ==
  /\ [][(pc = "connect_link" /\ pc' # pc)
          => IF link THEN pc' = "connect_arp"
             ELSE (polls >= LinkPolls /\ pc' = "connect_fail"
                     /\ err'.msg = "PHY link not available")]_vars
  /\ [][LinkWaitOnly
          => (arplog' = arplog /\ ~Issues(CMD_OPEN) /\ ~Issues(CMD_CONNECT))]_vars
  /\ []((pc = "idle" /\ ret.op = "connect"
           /\ err.msg = "PHY link not available")
          => (ret.kind = "False" /\ cmdlog = <<CMD_CLOSE, CMD_CLOSE>>))

\* connect has returned False for want of a link, the probe socket and
\* socket 0 never opened
C26_Witness ==
  /\ pc = "idle"
  /\ ret.op = "connect" /\ ret.kind = "False"
  /\ err.msg = "PHY link not available"
  /\ ~link
  /\ arplog = <<>> /\ S1_CR = 0
  /\ cmdlog = <<CMD_CLOSE, CMD_CLOSE>>


\* the positions of the control thread inside connect()
ConnectSteps ==
  {"connect_start", "connect_link", "connect_arp", "connect_open",
   "connect_open_wait", "connect_open_status", "connect_cmd",
   "connect_poll_status", "connect_poll_sir", "connect_fail"}

(* C27: reconnect enters connect() only with CLOSE written to each of the  *)
(* 8 sockets, the FARP bit set in the mode register and the connected flag  *)
(* down; its connect() never returns at once on the flag but goes on to the *)
(* wait for the link; CLOSE to all sockets and the FARP bit still hold      *)
(* throughout connect() and when reconnect returns.                        *)
C27_ReconnectRestartsSequence ==
  /\ [][(op = "reconnect" /\ pc \notin ConnectSteps /\ pc' \in ConnectSteps)
          => /\ pc' = "connect_start"
             /\ closed' = Slots /\ CMD_CLOSE \in Range(cmdlog')
             /\ MR_FARP \in MR'
             /\ ~connected']_vars
  /\ [][(op = "reconnect" /\ pc = "connect_start" /\ pc' # pc)
          => pc' = "connect_link"]_vars
  /\ [](((op = "reconnect" /\ pc \in ConnectSteps)
            \/ (pc = "idle" /\ ret.op = "reconnect"))
          => (closed = Slots /\ MR_FARP \in MR))

\* reconnect has returned True: CLOSE from _apply_arp_fix, then the whole
\* sequence of connect
C27_Witness ==
  /\ pc = "idle"
  /\ ret.op = "reconnect" /\ ret.kind = "True"
  /\ connected
  /\ closed = Slots /\ MR = {MR_FARP}
  /\ cmdlog = <<CMD_CLOSE, CMD_CLOSE, CMD_OPEN, CMD_CONNECT>>


\* both threads are outside socket_send
BothIdle == pc = "idle" /\ other.pc = "idle"
\* the TX write pointer and the TX ring hold every payload sent, in order
RingHoldsAll ==
  /\ Sn_TX_WR = Mask16(startPtr[1] + Len(written))
  /\ RingSeq(txmem, startPtr[1], Len(written)) = written

(* C28: when every send on socket 0 is made under one lock, the two        *)
(* threads are never inside socket_send together, and whenever both are    *)
(* outside the TX write pointer is its start plus the lengths of all       *)
(* payloads sent, mod 65536, and the ring holds the payloads one after the *)
(* other.  (Without the lock a state where this fails is reachable: the    *)
(* witness.)                                                               *)
C28_SerializedSendsKeepRing ==
  serialized =>
    /\ ~(pc # "idle" /\ other.pc # "idle")
    /\ BothIdle => RingHoldsAll

\* two sends interleaved without the lock, both returned: an update of the
\* TX write pointer is lost and one payload lies over the other
C28_Witness ==
  /\ ~serialized
  /\ BothIdle /\ sends = 2
  /\ ret.op = "socket_send" /\ Len(written) >= 2
  /\ Sn_TX_WR # Mask16(startPtr[1] + Len(written))
  /\ RingSeq(txmem, startPtr[1], Len(written)) # written


\* the step of W5500.socket_recv that samples a received size of zero
RecvOnEmpty == pc = "socket_recv_size" /\ pc' # pc /\ Sn_RX_RSR = 0

(* C31: W5500.socket_recv called when the received-size register reads 0   *)
(* returns the empty byte string in that very step: it writes no RX read    *)
(* pointer, issues no command, and leaves every socket register and both    *)
(* rings as they were.                                                      *)
C31_RecvOnEmptyReturnsAtOnce ==
  [][RecvOnEmpty =>
       /\ pc' = "idle"
       /\ ret' = [op |-> "socket_recv", kind |-> "value", val |-> <<>>]
       /\ cmdlog' = <<>>
       /\ UNCHANGED <<ctlVars, txVars, rxVars>>]_vars

\* socket_recv has returned b'' after an earlier call returned bytes
C31_Witness ==
  /\ pc = "idle" /\ ret.op = "socket_recv" /\ ret.val = <<>>
  /\ Sn_RX_RSR = 0 /\ cmdlog = <<>> /\ received # <<>>


\* the command sequences of a connect attempt on socket 0, complete or not
ConnectOrders ==
  LET full == <<CMD_CLOSE, CMD_OPEN, CMD_CONNECT, CMD_CLOSE>> IN
  {SubSeq(full, 1, k) : k \in 0..4}
    \cup {<<CMD_CLOSE, CMD_CLOSE>>, <<CMD_CLOSE, CMD_OPEN, CMD_CLOSE>>}
\* connect is running or was the last call to return
InConnect == op = "connect" \/ (pc = "idle" /\ ret.op = "connect")

(* C32: within one connect attempt the commands written to socket 0 come    *)
(* in the order CLOSE, OPEN, CONNECT (a CLOSE may end the attempt at any    *)
(* point); CONNECT is written only when the status read after OPEN was      *)
(* SOCK_INIT; and a status other than SOCK_INIT read after OPEN makes the   *)
(* attempt fail with no CONNECT written and a CLOSE as its last command.    *)
C32_ConnectCommandOrder ==
  /\ [](InConnect => cmdlog \in ConnectOrders)
  /\ [][(op = "connect" /\ Issues(CMD_CONNECT)) =>
          (status = SOCK_INIT /\ cmdlog = <<CMD_CLOSE, CMD_OPEN>>)]_vars
  /\ [][(op = "connect" /\ pc = "connect_open_status" /\ pc' # pc
           /\ Sn_SR # SOCK_INIT) => pc' = "connect_fail"]_vars
  /\ []((pc = "idle" /\ ret.op = "connect" /\ err.msg = "Socket open failed") =>
          (ret.kind = "False" /\ cmdlog = <<CMD_CLOSE, CMD_OPEN, CMD_CLOSE>>))

\* an attempt ended by a status other than SOCK_INIT after OPEN
C32_Witness ==
  /\ pc = "idle" /\ ret.op = "connect" /\ ret.kind = "False"
  /\ err.msg = "Socket open failed" /\ status # SOCK_INIT
  /\ cmdlog = <<CMD_CLOSE, CMD_OPEN, CMD_CLOSE>>


\* the positions of a read: before the received size is sampled, after the
\* bytes were read, after the pointer was written, after RECV was written
ReadSizeSteps == {"socket_recv_size", "receive_modbus_response_poll"}
ReadPtrSteps == {"socket_recv_ptr", "receive_modbus_response_ptr"}
ReadCmdSteps == {"socket_recv_cmd", "receive_modbus_response_cmd"}
ReadWaitSteps == {"socket_recv_wait", "receive_modbus_response_wait"}
\* the bytes the read in progress took from the RX ring
BytesRead ==
  IF op = "socket_recv" THEN data
  ELSE SubSeq(response_data, Len(response_data) - rx_rsr + 1, Len(response_data))
\* the RECV commands in the command log
RecvsIssued == Len(SelectSeq(cmdlog, LAMBDA c : c = CMD_RECV))

(* C33: in every non-empty read of W5500.socket_recv and of                 *)
(* _receive_modbus_response the bytes are read from the RX ring first, then *)
(* the RX read pointer register is written with the old pointer plus the    *)
(* number of bytes read, mod 65536, and only then RECV is written: RECV is  *)
(* written only after the pointer write, and once per non-empty read.       *)
C33_ReadPointerThenRecv ==
  /\ [][(pc \in ReadSizeSteps /\ pc' \in ReadPtrSteps) =>
          /\ Len(BytesRead') > 0
          /\ BytesRead' = RingSeq(rxmem, Sn_RX_RD, Len(BytesRead'))
          /\ UNCHANGED <<Sn_RX_RD, cmdlog>>]_vars
  /\ [][(pc \in ReadPtrSteps /\ pc' # pc) =>
          /\ Len(BytesRead) > 0
          /\ Sn_RX_RD' = Mask16(Sn_RX_RD + Len(BytesRead))
          /\ cmdlog' = cmdlog
          /\ pc' \in ReadCmdSteps]_vars
  /\ [][Issues(CMD_RECV) =>
          /\ pc \in ReadCmdSteps /\ pc' \in ReadWaitSteps
          /\ Sn_RX_RD = Mask16(rx_rd + Len(BytesRead))]_vars
  /\ [][(pc \in ReadCmdSteps /\ pc' # pc) => Issues(CMD_RECV)]_vars
  /\ [][(pc \in ReadWaitSteps /\ pc' # pc) =>
          (cmdlog' = cmdlog /\ pc' \notin ReadPtrSteps \cup ReadCmdSteps)]_vars
  /\ []((pc = "idle" /\ ret.op = "socket_recv" /\ ret.val # <<>>) =>
          RecvsIssued = 1)

\* a response that came in two segments: the second non-empty read of one
\* request has written the pointer and RECV
C33_Witness ==
  /\ pc = "receive_modbus_response_wait"
  /\ RecvsIssued = 2
  /\ Len(response_data) > rx_rsr /\ rx_rsr > 0
  /\ Sn_RX_RD = Mask16(rx_rd + rx_rsr)


\* a step of the control thread inside is_connected, the call included
QueryStep == pc' # pc /\ (op = "is_connected" \/ op' = "is_connected")
\* the registers of the peripheral the model holds
Registers0 == <<ctlVars, txVars, rxVars, S1_CR, S1_IR, MR, common>>

(* C34: is_connected returns True exactly when the connected flag is set    *)
(* and socket 0's status register reads SOCK_ESTABLISHED, and no step of it *)
(* changes the connected flag, the transaction ID or a register of the      *)
(* peripheral, whatever it returns.                                         *)
C34_IsConnectedIsPureQuery ==
  /\ [][(pc = "is_connected_status" /\ pc' # pc) =>
          /\ pc' = "idle" /\ ret'.op = "is_connected"
          /\ ret'.kind \in {"True", "False"}
          /\ ret'.kind = "True" <=> (connected /\ Sn_SR = SOCK_ESTABLISHED)]_vars
  /\ [][QueryStep => UNCHANGED <<clientVars, Registers0>>]_vars

\* is_connected has returned False on a connected client whose peer closed
C34_Witness ==
  /\ pc = "idle" /\ ret.op = "is_connected" /\ ret.kind = "False"
  /\ connected /\ Sn_SR = SOCK_CLOSED
  /\ <<"Established", "True">> \in seen


\* the step of disconnect that tests the flag
DisconnectStep == pc = "disconnect_start" /\ pc' # pc

(* C35: disconnect on a connected client writes CLOSE to socket 0 and       *)
(* clears the connected flag; from then on a request operation writes no    *)
(* command and nothing to the TX ring and fails, and the flag is set again  *)
(* only by a connect that returns True; disconnect on a client that is not  *)
(* connected writes no command and changes neither the flag, the            *)
(* transaction ID nor a register, so a second disconnect changes nothing.   *)
C35_DisconnectEndsSession ==
  /\ [][(DisconnectStep /\ connected) =>
          (Issues(CMD_CLOSE) /\ ~connected' /\ pc' = "idle")]_vars
  /\ [][(DisconnectStep /\ ~connected) =>
          (cmdlog' = cmdlog /\ pc' = "idle"
             /\ UNCHANGED <<clientVars, Registers0>>)]_vars
  /\ [][(op \in RequestOps /\ ~connected /\ pc' # pc) =>
          (cmdlog' = cmdlog /\ ~connected' /\ UNCHANGED <<Sn_CR, txVars>>)]_vars
  /\ []((RequestDone /\ ~connected) => ret.kind \in {"None", "False", "raise"})
  /\ [][(~connected /\ connected') =>
          (op \in {"connect", "reconnect"} /\ ret'.kind = "True")]_vars

\* connected, disconnected, then a request has failed unsent
C35_Witness ==
  /\ RequestDone /\ ~connected
  /\ <<"Established", "True">> \in seen /\ calls = 2
  /\ ret.kind \in {"None", "False"} /\ err.msg = "Not connected to PLC"
  /\ cmdlog = <<>> /\ txmem = EmptyMem


(* C36: after reconnect has returned, the MAC, IP, subnet-mask, gateway,    *)
(* retry-time and retry-count registers hold what _setup_network wrote when *)
(* the client was constructed.                                              *)
C36_ReconnectKeepsNetworkSetup ==
  (pc = "idle" /\ ret.op = "reconnect") => common = NetworkSetup


\* every byte the peer's segments have put in the RX ring since Init
RxStream == RingSeq(rxmem, startPtr[2], Mask16(Sn_RX_WR - startPtr[2]))
\* the offsets in byte stream st, from offset k on, at which an MBAP header
\* begins: each header's length field gives the place of the next
RECURSIVE HeaderStarts(_, _)
HeaderStarts(st, k) ==
  IF k + 6 > Len(st) THEN {k}
  ELSE {k} \cup HeaderStarts(st, k + 6 + UnpackH(SubSeq(st, k + 5, k + 6)))
\* the offset in the stream of the first byte of the response being parsed
ResponseOffset == Mask16(Sn_RX_RD - startPtr[2]) - Len(response)

(* C37: whatever requests came before, timed-out ones that took fewer than  *)
(* 8 bytes out of the RX ring included, the bytes a request parses as its   *)
(* response begin at the first byte of an MBAP header the peer sent.        *)
C37_ResponseStartsAtHeader ==
  pc = "parse_response" => ResponseOffset \in HeaderStarts(RxStream, 0)


(* C38: the verdict of _test_arp_resolution rests on interrupt bits raised  *)
(* by the SEND of that same probe: the poll that makes it return True has   *)
(* read a SEND_OK bit raised since that SEND, and the poll that ends it on  *)
(* TIMEOUT a TIMEOUT bit raised since that SEND.                            *)
C38_VerdictFromOwnSend ==
  /\ [][(PollReads /\ pc' = "connect_open") => IR_SEND_OK \in arp_fresh]_vars
  /\ [][(PollReads /\ pc' = "arp_give_up") => IR_TIMEOUT \in arp_fresh]_vars


\* what connect raises inside its try
ConnectFailures ==
  {"PHY link not available", "ARP resolution failed", "Socket open failed",
   "Connection refused by PLC", "Connection timeout"}

(* C39: whenever connect has returned False, whichever failure ended the    *)
(* attempt (no link, ARP probe failed, status not SOCK_INIT after OPEN,     *)
(* refused, TIMEOUT bit, deadline over), the connected flag is not set and  *)
(* the last command the call wrote to socket 0 is CLOSE, written after the  *)
(* CLOSE the attempt began with.                                            *)
C39_FailedConnectClosesSocket ==
  (pc = "idle" /\ ret.op = "connect" /\ ret.kind = "False") =>
    /\ ~connected
    /\ err.msg \in ConnectFailures
    /\ Len(cmdlog) >= 2 /\ cmdlog[Len(cmdlog)] = CMD_CLOSE

\* a refused attempt, then an attempt that failed on the status after OPEN
C39_Witness ==
  /\ pc = "idle" /\ ret.op = "connect" /\ ret.kind = "False" /\ ~connected
  /\ <<"Refused", "False">> \in seen /\ err.msg = "Socket open failed"
  /\ arplog # <<>> /\ cmdlog[Len(cmdlog)] = CMD_CLOSE


\* no step of a request operation on a client that is not connected writes
\* to the bus or reads the RX ring
UnconnectedWritesNothing ==
  /\ [][(op \in RequestOps /\ ~connected /\ pc' # pc) =>
          /\ UNCHANGED <<ctlVars, txVars, rxVars, clientVars>>
          /\ cmdlog' = cmdlog]_vars
  /\ []((op \in RequestOps /\ ~connected) =>
          pc \in {"request_start", "send_modbus_frame_write"})
\* the failure value of the request operation that returned last
FailureValue == IF ret.op \in ReadOps THEN "None" ELSE "False"

(* C40, as stated: a request operation called while the connected flag is   *)
(* not set writes nothing to the TX buffer, the TX write pointer or the     *)
(* command register, reads nothing from the RX ring, leaves the flag and    *)
(* the socket as they were, and returns None (reads) or False (writes).     *)
C40_UnconnectedRequestReturnsFailure ==
  /\ UnconnectedWritesNothing
  /\ []((RequestDone /\ ~connected) => ret.kind = FailureValue)

(* C40, amended: the same, with the return value by the arguments: None or  *)
(* False with "Not connected to PLC" logged when the count is within the    *)
(* limit, the ValueError raised to the caller when it is over.              *)
C40_UnconnectedRequestFailsUnsent ==
  /\ UnconnectedWritesNothing
  /\ []((RequestDone /\ ~connected /\ WithinLimits) =>
          (ret.kind = FailureValue /\ err.msg = "Not connected to PLC"))
  /\ []((RequestDone /\ ~connected /\ ~WithinLimits) => ret.kind = "raise")

\* a write on a client that is not connected has returned False
C40_Witness ==
  /\ RequestDone /\ ~connected /\ WithinLimits
  /\ ret.op \in WriteOps /\ ret.kind = "False"
  /\ err.msg = "Not connected to PLC"
  /\ cmdlog = <<>> /\ txmem = EmptyMem /\ Sn_TX_WR = startPtr[1]

====
